---- MODULE Spec2Model ----
(***************************************************************************)
(* termotp: decryption of an Aegis encrypted vault export (aegis.go) and   *)
(* the part of main() that consumes its result (Spec); the filter of the   *)
(* decrypted database and the sort (SpecFilter); the reading of the        *)
(* password (SpecPassword); the command line and main() (SpecMain).        *)
(*                                                                         *)
(* Texts (hex, base64) are sequences of one-character strings, byte        *)
(* strings are sequences of numbers 0..255; nil and the empty slice are    *)
(* both <<>>.  scrypt and AES-GCM are modelled as perfect primitives: a    *)
(* derived key is the term of its inputs, and a ciphertext opens exactly   *)
(* when it is one of the sealed boxes of GCMVectors under the same key and *)
(* nonce.                                                                  *)
(***************************************************************************)
EXTENDS Integers, Sequences, FiniteSets, TLC

VARIABLES
    file,        \* the input file: readable or not, and what it holds
    password,    \* the password bytes handed to aegisDecrypt
    pc,          \* position in main / aegisDecrypt
    encJSON,     \* aegisDecrypt: the unmarshalled aegisEncryptedJSON
    i,           \* aegisDecrypt: index of the next slot of the range loop
    masterkey,   \* aegisDecrypt: var masterkey []byte
    ret,         \* what aegisDecrypt returned: [db, err]
    calls,       \* the library calls made so far, in order
    exitStatus,  \* process exit status, -1 while running
    \* filterAegisVault and the part of main() around it
    plainJSON,   \* the decrypted database handed to filterAegisVault
    args,        \* flag.Args(): the regular expressions of the command line
    now,         \* time.Now().Unix() while the tokens are computed
    fpc,         \* position in main / filterAegisVault
    rematch,     \* main: the compiled regular expression
    vaultJSON,   \* filterAegisVault: the unmarshalled aegisJSON
    entryIdx,    \* filterAegisVault: index of the next entry of the range loop
    tokens,      \* the token computed for each entry visited so far
    vault,       \* filterAegisVault: ret, then main: vault
    ferr,        \* the error main dies of, NoErr while there is none
    fexit,       \* process exit status, -1 while running
    \* readPassword and what follows it
    stdin,       \* standard input: its mode and what it delivers
    raw,         \* the terminal is in raw mode
    everRaw,     \* the terminal was put into raw mode at some time
    ppc,         \* position in readPassword / its caller
    pwret,       \* what readPassword returned: [password, err]
    pexit,       \* process exit status, -1 while running
    \* main, from the command line to the end of the process
    argv,        \* the command line as flag.Parse reads it
    flags,       \* main: what parseFlags returned
    mpc,         \* position in main
    trace,       \* what main has called and printed so far, in order
    merr,        \* the error main dies of, NoErr while there is none
    mexit,       \* process exit status, -1 while running
    \* the output of main
    mode,        \* the output format: "table", "plain", "fzf", "json", "fuzzy"
    unsorted,    \* the vault as filterAegisVault returned it
    shown,       \* the entries in the order they are presented
    pick,        \* the line or item the user selected, 0 while none
    printed,     \* the token main prints after a selection
    \* inputFile
    matches,     \* what filepath.Glob finds, each file with its os.Stat
    ipc,         \* position in inputFile
    fileIdx,     \* inputFile: index of the next file of the range loop
    ntime,       \* inputFile: var ntime time.Time
    nfile,       \* inputFile: var nfile string
    iret         \* what inputFile returned: [path, err]

decryptVars == <<file, password, pc, encJSON, i, masterkey, ret, calls, exitStatus>>

filterVars == <<plainJSON, args, now, fpc, rematch, vaultJSON, entryIdx, tokens,
                vault,
                ferr, fexit>>

passwordVars == <<stdin, raw, everRaw, ppc, pwret, pexit>>

mainVars == <<argv, flags, mpc, trace, merr, mexit>>

outputVars == <<mode, unsorted, shown, pick, printed>>

inputVars == <<matches, ipc, fileIdx, ntime, nfile, iret>>

vars == <<decryptVars, filterVars, passwordVars, mainVars, outputVars, inputVars>>

----------------------------------------------------------------------------
(* Bounds and constants *)

\* Largest number of key slots in an input envelope.
MaxSlots == 2

\* const aegisKeyLen: the length of the scrypt-derived key.
aegisKeyLen == 32

\* The slot type of a password slot (slot.Type != 1 is skipped).
PasswordSlotType == 1

\* crypto/cipher: GCM standard nonce size and tag size, in bytes.
gcmStandardNonceSize == 12
gcmTagSize == 16

NoErr == ""

Fill(n, b) == [k \in 1..n |-> b]

----------------------------------------------------------------------------
(* encoding/hex *)

HexLower == <<"0","1","2","3","4","5","6","7","8","9","a","b","c","d","e","f">>
HexUpper == <<"0","1","2","3","4","5","6","7","8","9","A","B","C","D","E","F">>

HexChars == {HexLower[k] : k \in 1..16} \cup {HexUpper[k] : k \in 1..16}

\* The value of each hexadecimal digit, in either case.
reverseHexTable ==
    [c \in HexChars |-> (CHOOSE k \in 1..16 : HexLower[k] = c \/ HexUpper[k] = c) - 1]

\* A decoder that reports no error and yields no bytes for a bad text.
HexDecodeString_Lenient(s) ==
    IF Len(s) % 2 = 0 /\ \A k \in 1..Len(s) : s[k] \in HexChars
    THEN [ok |-> TRUE,
          val |-> [k \in 1..(Len(s) \div 2) |->
                      16 * reverseHexTable[s[2*k - 1]] + reverseHexTable[s[2*k]]],
          err |-> NoErr]
    ELSE [ok |-> TRUE, val |-> <<>>, err |-> NoErr]

\* hex.DecodeString(s): the bytes, or InvalidByteError when a character is
\* no hexadecimal digit, or ErrLength when the length is odd.
HexDecodeString(s) ==
    LET n == Len(s)
    IN  IF \E k \in 1..n : s[k] \notin HexChars
        THEN [ok |-> FALSE, val |-> <<>>, err |-> "encoding/hex: invalid byte"]
        ELSE IF n % 2 = 1
        THEN [ok |-> FALSE, val |-> <<>>, err |-> "encoding/hex: odd length hex string"]
        ELSE [ok |-> TRUE,
              val |-> [k \in 1..(n \div 2) |->
                          16 * reverseHexTable[s[2*k - 1]] + reverseHexTable[s[2*k]]],
              err |-> NoErr]

\* The lower-case hex text of a byte string (how the vault was written).
HexEncode(b) ==
    [k \in 1..(2 * Len(b)) |->
        IF k % 2 = 1 THEN HexLower[(b[(k + 1) \div 2] \div 16) + 1]
                     ELSE HexLower[(b[k \div 2] % 16) + 1]]

----------------------------------------------------------------------------
(* encoding/base64, StdEncoding *)

B64Alphabet ==
    <<"A","B","C","D","E","F","G","H","I","J","K","L","M","N","O","P","Q","R",
      "S","T","U","V","W","X","Y","Z","a","b","c","d","e","f","g","h","i","j",
      "k","l","m","n","o","p","q","r","s","t","u","v","w","x","y","z","0","1",
      "2","3","4","5","6","7","8","9","+","/">>

IsB64Char(c) == \E k \in 1..64 : B64Alphabet[k] = c

B64Val(c) == IF c = "=" THEN 0 ELSE (CHOOSE k \in 1..64 : B64Alphabet[k] = c) - 1

\* base64.StdEncoding.DecodeString(s): padded quantums of four characters.
Base64DecodeString(s) ==
    LET n == Len(s)
        pad == IF n >= 1 /\ s[n] = "="
               THEN (IF n >= 2 /\ s[n - 1] = "=" THEN 2 ELSE 1)
               ELSE 0
        word(q) == B64Val(s[4*q - 3]) * 262144 + B64Val(s[4*q - 2]) * 4096
                   + B64Val(s[4*q - 1]) * 64 + B64Val(s[4*q])
        byte(k) == LET w == word(((k - 1) \div 3) + 1)
                       j == (k - 1) % 3
                   IN  IF j = 0 THEN w \div 65536
                       ELSE IF j = 1 THEN (w \div 256) % 256
                       ELSE w % 256
    IN  IF n % 4 # 0 \/ (\E k \in 1..(n - pad) : ~IsB64Char(s[k]))
        THEN [ok |-> FALSE, val |-> <<>>, err |-> "illegal base64 data"]
        ELSE [ok |-> TRUE,
              val |-> [k \in 1..(3 * (n \div 4) - pad) |-> byte(k)],
              err |-> NoErr]

----------------------------------------------------------------------------
(* golang.org/x/crypto/scrypt, crypto/aes, crypto/cipher *)

IsPowerOfTwo(n) == \E k \in 0..30 : n = 2^k

\* scrypt.Key(password, salt, N, r, p, keyLen): the key is the term of its
\* inputs (no two inputs derive the same key).
ScryptKey(pw, salt, N, r, p, keyLen) ==
    IF N <= 1 \/ ~IsPowerOfTwo(N)
    THEN [ok |-> FALSE, err |-> "scrypt: N must be > 1 and a power of 2",
          key |-> [len |-> 0, mat |-> [raw |-> <<>>]]]
    ELSE IF r * p >= 1073741824
    THEN [ok |-> FALSE, err |-> "scrypt: parameters are too large",
          key |-> [len |-> 0, mat |-> [raw |-> <<>>]]]
    ELSE [ok |-> TRUE, err |-> NoErr,
          key |-> [len |-> keyLen,
                   mat |-> [pw |-> pw, salt |-> salt, N |-> N, r |-> r, p |-> p]]]

\* A byte string used as a key.
RawKey(b) == [len |-> Len(b), mat |-> [raw |-> b]]

\* newAES(key): aes.NewCipher accepts 16, 24 and 32 byte keys only.
newAES(key) ==
    IF key.len \in {16, 24, 32}
    THEN [ok |-> TRUE, err |-> NoErr]
    ELSE [ok |-> FALSE, err |-> "crypto/aes: invalid key size"]

----------------------------------------------------------------------------
(* The vaults the model reads: passwords, salts, nonces and sealed boxes *)

\* PwA unlocks the password slots of the vaults, PwWrong unlocks nothing.
PwA == <<112, 65>>
PwWrong == <<120>>
Passwords == {PwA, PwWrong}

SaltA == <<161, 1>>
ScryptN == 32768
ScryptR == 8
ScryptP == 1

SlotNonce == Fill(gcmStandardNonceSize, 7)
DbNonce == Fill(gcmStandardNonceSize, 9)

\* Master keys wrapped by the slots: the usual 32 bytes, and other lengths.
MK32 == Fill(32, 17)
MK16 == Fill(16, 34)
MK20 == Fill(20, 51)

\* Plaintexts of the database blob.
DbPlain32 == <<123, 49, 125>>
DbPlain16 == <<123, 50, 125>>

KeyA == ScryptKey(PwA, SaltA, ScryptN, ScryptR, ScryptP, aegisKeyLen).key

\* Every box sealed by the writer of the vaults: AES-GCM of pt under key and
\* nonce gives ciphertext ct (as long as pt) and tag (gcmTagSize bytes).
GCMVectors ==
    { [key |-> KeyA, nonce |-> SlotNonce, pt |-> MK32,
       ct |-> Fill(32, 193), tag |-> Fill(gcmTagSize, 225)],
      [key |-> KeyA, nonce |-> SlotNonce, pt |-> MK16,
       ct |-> Fill(16, 195), tag |-> Fill(gcmTagSize, 227)],
      [key |-> KeyA, nonce |-> SlotNonce, pt |-> MK20,
       ct |-> Fill(20, 196), tag |-> Fill(gcmTagSize, 228)],
      [key |-> KeyA, nonce |-> SlotNonce, pt |-> <<>>,
       ct |-> <<>>, tag |-> Fill(gcmTagSize, 229)],
      [key |-> RawKey(MK32), nonce |-> DbNonce, pt |-> DbPlain32,
       ct |-> <<208, 1, 2>>, tag |-> Fill(gcmTagSize, 241)],
      [key |-> RawKey(MK16), nonce |-> DbNonce, pt |-> DbPlain16,
       ct |-> <<214, 3, 4>>, tag |-> Fill(gcmTagSize, 242)] }

SealedBox(key, pt) == CHOOSE v \in GCMVectors : v.key = key /\ v.pt = pt

\* An Open that hands back the bytes of the key it was given in place of the
\* plaintext, when the key is a byte string.
GCMOpen_ReturnsKey(key, nonce, data) ==
    LET n == Len(data)
        ct == SubSeq(data, 1, n - gcmTagSize)
        tag == SubSeq(data, n - gcmTagSize + 1, n)
        hit == {v \in GCMVectors :
                   v.key = key /\ v.nonce = nonce /\ v.ct = ct /\ v.tag = tag}
    IN  IF Len(nonce) # gcmStandardNonceSize
        THEN [panic |-> TRUE, ok |-> FALSE, val |-> <<>>,
              err |-> "crypto/cipher: incorrect nonce length given to GCM"]
        ELSE IF n < gcmTagSize \/ hit = {}
        THEN [panic |-> FALSE, ok |-> FALSE, val |-> <<>>,
              err |-> "cipher: message authentication failed"]
        ELSE [panic |-> FALSE, ok |-> TRUE,
              val |-> IF "raw" \in DOMAIN key.mat THEN key.mat.raw
                      ELSE (CHOOSE v \in hit : TRUE).pt,
              err |-> NoErr]

\* cipher.AEAD.Open(nil, nonce, data, nil) of AES-GCM: panics on a nonce of
\* the wrong length; the last gcmTagSize bytes of data are the tag.
GCMOpen(key, nonce, data) ==
    LET n == Len(data)
        ct == SubSeq(data, 1, n - gcmTagSize)
        tag == SubSeq(data, n - gcmTagSize + 1, n)
        hit == {v \in GCMVectors :
                   v.key = key /\ v.nonce = nonce /\ v.ct = ct /\ v.tag = tag}
    IN  IF Len(nonce) # gcmStandardNonceSize
        THEN [panic |-> TRUE, ok |-> FALSE, val |-> <<>>,
              err |-> "crypto/cipher: incorrect nonce length given to GCM"]
        ELSE IF n < gcmTagSize \/ hit = {}
        THEN [panic |-> FALSE, ok |-> FALSE, val |-> <<>>,
              err |-> "cipher: message authentication failed"]
        ELSE [panic |-> FALSE, ok |-> TRUE, val |-> (CHOOSE v \in hit : TRUE).pt,
              err |-> NoErr]

----------------------------------------------------------------------------
(* The JSON documents: key slots, header params, db *)

\* A slot as aegisEncryptedJSON.Header.Slots holds it after json.Unmarshal.
MkSlot(type, salt, n, nonce, tag, key) ==
    [Type |-> type, Salt |-> salt, N |-> n, R |-> ScryptR, P |-> ScryptP,
     KeyParams |-> [Nonce |-> nonce, Tag |-> tag], Key |-> key]

\* A password slot wrapping pt under the key derived from (pw, salt).
WrapSlot(pw, salt, pt) ==
    LET box == SealedBox(ScryptKey(pw, salt, ScryptN, ScryptR, ScryptP, aegisKeyLen).key, pt)
    IN  MkSlot(PasswordSlotType, HexEncode(salt), ScryptN, HexEncode(box.nonce),
               HexEncode(box.tag), HexEncode(box.ct))

SlotA32 == WrapSlot(PwA, SaltA, MK32)
SlotA16 == WrapSlot(PwA, SaltA, MK16)
SlotA20 == WrapSlot(PwA, SaltA, MK20)
SlotA0 == WrapSlot(PwA, SaltA, <<>>)

\* Slots that fail: a wrong tag, malformed hex in a field, a cost
\* parameter scrypt rejects, a nonce of 8 bytes.
SlotBadTag == [SlotA32 EXCEPT !.KeyParams.Tag = HexEncode(Fill(gcmTagSize, 0))]
SlotBadSaltHex == [SlotA32 EXCEPT !.Salt = <<"z", "z">>]
SlotBadNonceHex == [SlotA32 EXCEPT !.KeyParams.Nonce = <<"0">>]
SlotBadKeyHex == [SlotA32 EXCEPT !.Key = <<"x", "y">>]
SlotBadN == [SlotA32 EXCEPT !.N = 0]
SlotShortNonce == [SlotA32 EXCEPT !.KeyParams.Nonce = HexEncode(Fill(8, 7))]

\* A slot of another kind (type 2), every field of it unusable.
SlotOtherKind == MkSlot(2, <<"z">>, 0, <<"z">>, <<"z">>, <<"z">>)

SlotChoices ==
    { SlotA32, SlotA16, SlotA20, SlotA0, SlotBadTag, SlotBadSaltHex,
      SlotBadNonceHex, SlotBadKeyHex, SlotBadN, SlotShortNonce, SlotOtherKind }

SlotLists == UNION { [1..n -> SlotChoices] : n \in 0..MaxSlots }

\* header.params of a database sealed under master key mk.
DbParams(mk, pt) ==
    LET box == SealedBox(RawKey(mk), pt)
    IN  [Nonce |-> HexEncode(box.nonce), Tag |-> HexEncode(box.tag)]

Params32 == DbParams(MK32, DbPlain32)
Params16 == DbParams(MK16, DbPlain16)

\* "0AEC" and "1gME" are the base64 of the two database ciphertexts.
Db32 == <<"0", "A", "E", "C">>
Db16 == <<"1", "g", "M", "E">>

\* header.params and db of the vaults, and which of the two the text holds:
\* the two databases, a database under the tag of the other, a db that is no
\* base64, a nonce and a tag that are no hex, and texts lacking a field.
BodyChoices ==
    { [present |-> {"params", "db"}, params |-> Params32, db |-> Db32],
      [present |-> {"params", "db"}, params |-> Params16, db |-> Db16],
      [present |-> {"params", "db"}, params |-> Params16, db |-> Db32],
      [present |-> {"params", "db"}, params |-> Params32, db |-> <<"0", "A", "E">>],
      [present |-> {"params", "db"},
       params |-> [Params32 EXCEPT !.Nonce = <<"0", "q">>], db |-> Db32],
      [present |-> {"params", "db"},
       params |-> [Params32 EXCEPT !.Tag = <<"f">>], db |-> Db32],
      [present |-> {"db"}, params |-> Params32, db |-> Db32],
      [present |-> {"params"}, params |-> Params32, db |-> Db32] }

\* A JSON object with the required fields that are present in it.
Fields == {"slots", "params", "db"}

JSONObject(present, slots, params, db) ==
    [f \in present |-> CASE f = "slots" -> slots
                         [] f = "params" -> params
                         [] f = "db" -> db]

\* The zero values json.Unmarshal leaves in a field absent from the text.
ZeroParams == [Nonce |-> <<>>, Tag |-> <<>>]

\* A decoder that rejects a text lacking one of the fields.
Unmarshal_Strict(content) ==
    IF content.kind # "object" \/ DOMAIN content.obj # Fields
    THEN [ok |-> FALSE, err |-> "json: cannot unmarshal into Go value",
          val |-> [Header |-> [Slots |-> <<>>, Params |-> ZeroParams], Db |-> <<>>]]
    ELSE [ok |-> TRUE, err |-> NoErr,
          val |-> [Header |-> [Slots |-> content.obj["slots"],
                               Params |-> content.obj["params"]],
                   Db |-> content.obj["db"]]]

\* json.Unmarshal(buf, &encJSON): a syntax or type error, or the struct.
Unmarshal(content) ==
    IF content.kind # "object"
    THEN [ok |-> FALSE,
          err |-> IF content.kind = "garbage"
                  THEN "invalid character looking for beginning of value"
                  ELSE "json: cannot unmarshal into Go value",
          val |-> [Header |-> [Slots |-> <<>>, Params |-> ZeroParams], Db |-> <<>>]]
    ELSE LET o == content.obj
         IN  [ok |-> TRUE, err |-> NoErr,
              val |-> [Header |->
                         [Slots |-> IF "slots" \in DOMAIN o THEN o["slots"] ELSE <<>>,
                          Params |-> IF "params" \in DOMAIN o THEN o["params"]
                                     ELSE ZeroParams],
                       Db |-> IF "db" \in DOMAIN o THEN o["db"] ELSE <<>>]]

----------------------------------------------------------------------------
(* aegisDecrypt *)

Call(fn, arg, idx) == [fn |-> fn, arg |-> arg, slot |-> idx]

\* A call that writes bytes to the log: rlog.Debugf(format, string(bytes)).
Emit(fn, format, bytes) ==
    [fn |-> fn, arg |-> format, slot |-> 0, bytes |-> bytes]

\* The key-recovery failure reported with the error of the last slot tried.
ErrMasterKey_LastSlot == "slot: cipher: message authentication failed"

\* errors.New("unable to decrypt the master key with the given password")
ErrMasterKey == "unable to decrypt the master key with the given password"

\* A loop that decodes and tries the slots of every kind.
SkipsSlot_Never(slot) == FALSE

\* if slot.Type != 1 { continue }
SkipsSlot(slot) == slot.Type # PasswordSlotType

\* A loop without its break: every slot is tried, the last one decides.
AfterOpen_NeverBreak(open) == "continue"

\* A loop that gives up at the first password slot, opened or not.
AfterOpen_AlwaysBreak(open) == "break"

\* After aesgcm.Open on a slot: continue on an error, break otherwise.
AfterOpen(open) == IF open.ok THEN "break" ELSE "continue"

\* One iteration of the range loop over encJSON.Header.Slots, on slot number
\* idx: what the loop does next (continue, break, return, panic), the value
\* of masterkey and of the returned error after it, and the calls it made.
SlotIteration(slot, idx, pw, mk) ==
    LET salt == HexDecodeString(slot.Salt)
        c1 == <<Call("hex.DecodeString", "slot.Salt", idx)>>
        kdf == ScryptKey(pw, salt.val, slot.N, slot.R, slot.P, aegisKeyLen)
        c2 == Append(c1, Call("scrypt.Key", "password", idx))
        aes == newAES(kdf.key)
        c3 == Append(c2, Call("newAES", "key", idx))
        nonce == HexDecodeString(slot.KeyParams.Nonce)
        c4 == Append(c3, Call("hex.DecodeString", "slot.KeyParams.Nonce", idx))
        tag == HexDecodeString(slot.KeyParams.Tag)
        c5 == Append(c4, Call("hex.DecodeString", "slot.KeyParams.Tag", idx))
        keyslot == HexDecodeString(slot.Key)
        c6 == Append(c5, Call("hex.DecodeString", "slot.Key", idx))
        ciphertext == keyslot.val \o tag.val
        open == GCMOpen(kdf.key, nonce.val, ciphertext)
        c7 == Append(c6, Call("aesgcm.Open", "ciphertext", idx))
        Return(e, c) == [next |-> "return", masterkey |-> mk, err |-> e, calls |-> c]
    IN  IF SkipsSlot(slot)
        THEN [next |-> "continue", masterkey |-> mk, err |-> NoErr, calls |-> <<>>]
        ELSE IF ~salt.ok THEN Return("slot salt: " \o salt.err, c1)
        ELSE IF ~kdf.ok THEN Return(kdf.err, c2)
        ELSE IF ~aes.ok THEN Return(aes.err, c3)
        ELSE IF ~nonce.ok THEN Return("slot nonce: " \o nonce.err, c4)
        ELSE IF ~tag.ok THEN Return("slot tag: " \o tag.err, c5)
        ELSE IF ~keyslot.ok THEN Return("slot key: " \o keyslot.err, c6)
        ELSE IF open.panic
        THEN [next |-> "panic", masterkey |-> mk, err |-> open.err, calls |-> c7]
        ELSE IF AfterOpen(open) = "continue"
        THEN [next |-> "continue", masterkey |-> open.val, err |-> NoErr,
              calls |-> Append(c7, Call("rlog.Debug", open.err, idx))]
        ELSE [next |-> "break", masterkey |-> open.val, err |-> NoErr, calls |-> c7]

\* The check of the master key left out.
NoMasterKey_Never(mk) == FALSE

\* if len(masterkey) == 0 { return nil, errors.New(...) }
NoMasterKey(mk) == Len(mk) = 0

\* An error return that hands back the bytes decoded so far.
NilBytes_Partial(partial) == partial

\* return nil, err: the byte slice returned together with a non-nil error.
NilBytes(partial) == <<>>

\* The database failure reported with the message of the key recovery.
OpenDbErr_Generic(e) == "unable to decrypt the master key with the given password"

\* db, err := cipher.Open(...); if err != nil { return nil, err }
OpenDbErr(e) == e

\* The rest of aegisDecrypt once a master key is held: decode the db, build
\* the cipher, decode nonce and tag, open content ++ tag.
DecryptDb(enc, mk) ==
    LET content == Base64DecodeString(enc.Db)
        c1 == <<Call("base64.DecodeString", "Db", 0)>>
        aes == newAES(RawKey(mk))
        c2 == Append(c1, Call("newAES", "masterkey", 0))
        nonce == HexDecodeString(enc.Header.Params.Nonce)
        c3 == Append(c2, Call("hex.DecodeString", "Params.Nonce", 0))
        tag == HexDecodeString(enc.Header.Params.Tag)
        c4 == Append(c3, Call("hex.DecodeString", "Params.Tag", 0))
        data == content.val \o tag.val
        open == GCMOpen(RawKey(mk), nonce.val, data)
        c5 == Append(c4, Call("cipher.Open", "data", 0))
        Fail(e, c, partial) ==
            [panic |-> FALSE, db |-> NilBytes(partial), err |-> e, calls |-> c]
    IN  IF ~content.ok THEN Fail(content.err, c1, content.val)
        ELSE IF ~aes.ok THEN Fail(aes.err, c2, content.val)
        ELSE IF ~nonce.ok THEN Fail("params nonce: " \o nonce.err, c3, content.val)
        ELSE IF ~tag.ok THEN Fail("params tag: " \o tag.err, c4, content.val)
        ELSE IF open.panic
        THEN [panic |-> TRUE, db |-> <<>>, err |-> open.err, calls |-> c5]
        ELSE IF ~open.ok THEN Fail(OpenDbErr(open.err), c5, data)
        ELSE [panic |-> FALSE, db |-> open.val, err |-> NoErr, calls |-> c5]

----------------------------------------------------------------------------
(* The state machine: main calls aegisDecrypt and acts on what it returns *)

ZeroEnvelope == [Header |-> [Slots |-> <<>>, Params |-> ZeroParams], Db |-> <<>>]

Contents ==
    { [kind |-> k, obj |-> JSONObject({}, <<>>, ZeroParams, <<>>)] :
        k \in {"garbage", "mistyped"} }
    \cup
    { [kind |-> "object",
       obj |-> JSONObject(body.present \cup hasSlots, slots, body.params, body.db)] :
        hasSlots \in {{}, {"slots"}}, slots \in SlotLists, body \in BodyChoices }

Files ==
    { [readable |-> FALSE, content |-> [kind |-> "garbage",
                                        obj |-> JSONObject({}, <<>>, ZeroParams, <<>>)]] }
    \cup { [readable |-> TRUE, content |-> c] : c \in Contents }

\* filterAegisVault is not running.
FilterIdle ==
    /\ plainJSON = [kind |-> "garbage", entries |-> <<>>]
    /\ args = <<>>
    /\ now = 0
    /\ fpc = "Idle"
    /\ rematch = <<>>
    /\ vaultJSON = [Entries |-> <<>>]
    /\ entryIdx = 1
    /\ tokens = <<>>
    /\ vault = <<>>
    /\ ferr = ""
    /\ fexit = -1

\* readPassword is not running.
PasswordIdle ==
    /\ stdin = [mode |-> "pipe", makeRawFails |-> FALSE, event |-> "line",
                chunks |-> <<>>]
    /\ raw = FALSE
    /\ everRaw = FALSE
    /\ ppc = "Idle"
    /\ pwret = [password |-> <<>>, err |-> ""]
    /\ pexit = -1

\* cmdLineFlags{}
ZeroFlags ==
    [input |-> "", fuzzy |-> FALSE, fzf |-> FALSE, plain |-> FALSE,
     json |-> FALSE, setkeyring |-> FALSE, usekeyring |-> FALSE,
     version |-> FALSE]

\* main is not running.
MainIdle ==
    /\ argv = [flags |-> ZeroFlags, nargs |-> 0]
    /\ flags = ZeroFlags
    /\ mpc = "Idle"
    /\ trace = <<>>
    /\ merr = ""
    /\ mexit = -1

\* main is not printing.
OutputIdle ==
    /\ mode = "table"
    /\ unsorted = <<>>
    /\ shown = <<>>
    /\ pick = 0
    /\ printed = <<>>

\* inputFile is not running.
InputIdle ==
    /\ matches = [err |-> FALSE, files |-> <<>>]
    /\ ipc = "Idle"
    /\ fileIdx = 1
    /\ ntime = 0
    /\ nfile = 0
    /\ iret = [path |-> 0, err |-> ""]

Init ==
    /\ FilterIdle
    /\ PasswordIdle
    /\ MainIdle
    /\ OutputIdle
    /\ InputIdle
    /\ file \in Files
    /\ password \in Passwords
    /\ pc = "ReadFile"
    /\ encJSON = ZeroEnvelope
    /\ i = 1
    /\ masterkey = <<>>
    /\ ret = [db |-> <<>>, err |-> NoErr]
    /\ calls = <<>>
    /\ exitStatus = -1

\* aegisDecrypt returns (db, err) to main.
Returns(db, err) ==
    /\ ret' = [db |-> db, err |-> err]
    /\ pc' = "Returned"

\* buf, err := os.ReadFile(fname); json.Unmarshal(buf, &encJSON)
ReadFile ==
    /\ pc = "ReadFile"
    /\ IF ~file.readable
       THEN /\ Returns(<<>>, "open: no such file or directory")
            /\ calls' = Append(calls, Call("os.ReadFile", "fname", 0))
            /\ UNCHANGED encJSON
       ELSE LET u == Unmarshal(file.content)
            IN  /\ calls' = calls \o <<Call("os.ReadFile", "fname", 0),
                                       Call("json.Unmarshal", "buf", 0)>>
                /\ IF u.ok
                   THEN /\ encJSON' = u.val
                        /\ pc' = "Slots"
                        /\ UNCHANGED ret
                   ELSE /\ Returns(<<>>, u.err)
                        /\ UNCHANGED encJSON
    /\ UNCHANGED <<file, password, i, masterkey, exitStatus>>
    /\ UNCHANGED <<filterVars, passwordVars, mainVars, outputVars, inputVars>>

\* for _, slot := range encJSON.Header.Slots { ... }: one iteration.
SlotStep ==
    /\ pc = "Slots"
    /\ i <= Len(encJSON.Header.Slots)
    /\ LET r == SlotIteration(encJSON.Header.Slots[i], i, password, masterkey)
       IN  /\ calls' = calls \o r.calls
           /\ masterkey' = r.masterkey
           /\ CASE r.next = "continue" -> /\ i' = i + 1
                                          /\ UNCHANGED <<pc, ret>>
                [] r.next = "break" -> /\ pc' = "MasterKey"
                                       /\ UNCHANGED <<i, ret>>
                [] r.next = "return" -> /\ Returns(<<>>, r.err)
                                        /\ UNCHANGED i
                [] r.next = "panic" -> /\ pc' = "Panic"
                                       /\ ret' = [db |-> <<>>, err |-> r.err]
                                       /\ UNCHANGED i
    /\ UNCHANGED <<file, password, encJSON, exitStatus>>
    /\ UNCHANGED <<filterVars, passwordVars, mainVars, outputVars, inputVars>>

\* The range is exhausted without a break.
SlotsDone ==
    /\ pc = "Slots"
    /\ i > Len(encJSON.Header.Slots)
    /\ pc' = "MasterKey"
    /\ UNCHANGED <<file, password, encJSON, i, masterkey, ret, calls, exitStatus>>
    /\ UNCHANGED <<filterVars, passwordVars, mainVars, outputVars, inputVars>>

\* if len(masterkey) == 0 { return nil, errors.New("unable to decrypt ...") }
CheckMasterKey ==
    /\ pc = "MasterKey"
    /\ IF NoMasterKey(masterkey)
       THEN Returns(<<>>, ErrMasterKey)
       ELSE /\ pc' = "Db"
            /\ UNCHANGED ret
    /\ UNCHANGED <<file, password, encJSON, i, masterkey, calls, exitStatus>>
    /\ UNCHANGED <<filterVars, passwordVars, mainVars, outputVars, inputVars>>

\* Decode DB contents, decrypt the vault contents using the master key.
DecryptStep ==
    /\ pc = "Db"
    /\ LET r == DecryptDb(encJSON, masterkey)
       IN  /\ calls' = calls \o r.calls
           /\ IF r.panic
              THEN /\ pc' = "Panic"
                   /\ ret' = [db |-> <<>>, err |-> r.err]
              ELSE Returns(r.db, r.err)
    /\ UNCHANGED <<file, password, encJSON, i, masterkey, exitStatus>>
    /\ UNCHANGED <<filterVars, passwordVars, mainVars, outputVars, inputVars>>

\* main: db, err := aegisDecrypt(input, password); if err != nil { die(err) }
MainDie ==
    /\ pc = "Returned"
    /\ ret.err # NoErr
    /\ pc' = "Exit"
    /\ exitStatus' = 1
    /\ calls' = Append(calls, Call("rlog.Critical", ret.err, 0))
    /\ UNCHANGED <<file, password, encJSON, i, masterkey, ret>>
    /\ UNCHANGED <<filterVars, passwordVars, mainVars, outputVars, inputVars>>

\* main: rlog.Debugf("Decoded JSON:\n%s\n", string(db));
\* vault, err := filterAegisVault(db, rematch)
MainFilter ==
    /\ pc = "Returned"
    /\ ret.err = NoErr
    /\ pc' = "Filter"
    /\ calls' = calls \o <<Emit("rlog.Debugf", "Decoded JSON", ret.db),
                            Call("filterAegisVault", "db", 0)>>
    /\ UNCHANGED <<file, password, encJSON, i, masterkey, ret, exitStatus>>
    /\ UNCHANGED <<filterVars, passwordVars, mainVars, outputVars, inputVars>>

\* An unrecovered panic ends the process with status 2.
Crash ==
    /\ pc = "Panic"
    /\ pc' = "Exit"
    /\ exitStatus' = 2
    /\ UNCHANGED <<file, password, encJSON, i, masterkey, ret, calls>>
    /\ UNCHANGED <<filterVars, passwordVars, mainVars, outputVars, inputVars>>

Next ==
    \/ ReadFile
    \/ SlotStep
    \/ SlotsDone
    \/ CheckMasterKey
    \/ DecryptStep
    \/ MainDie
    \/ MainFilter
    \/ Crash

Spec == Init /\ [][Next]_vars

----------------------------------------------------------------------------
(* Vocabulary of the properties *)

\* The message the specification gives for the key-recovery failure.
GenericMessage == "unable to decrypt the master key with the given password"

Slots == encJSON.Header.Slots

\* aegisDecrypt has returned to main (and main may have gone on).
HasReturned == pc \in {"Returned", "Filter"} \/ (pc = "Exit" /\ exitStatus = 1)

\* The file was read and unmarshalled into encJSON.
EnvelopeDecoded ==
    pc # "ReadFile" /\ file.readable /\ file.content.kind = "object"

\* The range loop over the slots is over.
LoopOver == pc \notin {"ReadFile", "Slots"}

IsHexText(s) == Len(s) % 2 = 0 /\ \A k \in 1..Len(s) : s[k] \in HexChars

IsPasswordSlot(slot) == slot.Type = 1

\* Every text of the slot decodes, scrypt accepts its parameters and the
\* nonce has the length GCM wants.
WellFormedSlot(slot) ==
    /\ IsHexText(slot.Salt) /\ IsHexText(slot.KeyParams.Nonce)
    /\ IsHexText(slot.KeyParams.Tag) /\ IsHexText(slot.Key)
    /\ slot.N > 1 /\ IsPowerOfTwo(slot.N)
    /\ Len(slot.KeyParams.Nonce) = 2 * gcmStandardNonceSize

\* Opening the slot's key ++ tag under the key derived from pw.
Unwrap(slot, pw) ==
    GCMOpen(ScryptKey(pw, HexDecodeString(slot.Salt).val, slot.N, slot.R, slot.P,
                      aegisKeyLen).key,
            HexDecodeString(slot.KeyParams.Nonce).val,
            HexDecodeString(slot.Key).val \o HexDecodeString(slot.KeyParams.Tag).val)

Authenticates(slot, pw) ==
    IsPasswordSlot(slot) /\ WellFormedSlot(slot) /\ Unwrap(slot, pw).ok

FailsAuthentication(slot, pw) ==
    IsPasswordSlot(slot) /\ WellFormedSlot(slot) /\ ~Unwrap(slot, pw).ok

CallsOn(k) == {c \in 1..Len(calls) : calls[c].slot = k}

Called(fn) == \E c \in 1..Len(calls) : calls[c].fn = fn

\* The calls of the database stage of aegisDecrypt.
DbStageCalls == {"base64.DecodeString", "cipher.Open"}

----------------------------------------------------------------------------
(* C1 *)

\* C1: once the AEAD open of a password slot has succeeded, masterkey is the
\* plaintext of that slot, which is the first slot of the envelope that
\* authenticates, and no call (hex decoding, key derivation, open) is ever
\* made on a slot after it.
C1_FirstSlotWins ==
    \A k \in 1..Len(Slots) :
        (CallsOn(k) # {} /\ Authenticates(Slots[k], password))
        => /\ masterkey = Unwrap(Slots[k], password).val
           /\ \A j \in 1..(k - 1) : ~Authenticates(Slots[j], password)
           /\ \A j \in (k + 1)..Len(Slots) : CallsOn(j) = {}
           /\ pc # "Slots"

\* Two slots that both open under the password, wrapping different keys: the
\* loop is over and holds the key of the first.
C1_Witness ==
    /\ LoopOver /\ Len(Slots) = 2
    /\ Authenticates(Slots[1], password) /\ Authenticates(Slots[2], password)
    /\ Unwrap(Slots[1], password).val # Unwrap(Slots[2], password).val
    /\ masterkey = Unwrap(Slots[1], password).val

----------------------------------------------------------------------------
(* C2 *)

\* What aegisDecrypt does on an envelope whose only slot is slot: the master
\* key it holds and what it returns.
SingleSlotRun(slot, pw) ==
    LET r == SlotIteration(slot, 1, pw, <<>>)
        d == DecryptDb(encJSON, r.masterkey)
    IN  IF r.next = "break" /\ ~NoMasterKey(r.masterkey)
        THEN [masterkey |-> r.masterkey, panic |-> d.panic, db |-> d.db, err |-> d.err]
        ELSE [masterkey |-> r.masterkey, panic |-> FALSE, db |-> <<>>,
              err |-> IF r.next = "return" THEN r.err ELSE ErrMasterKey]

\* aegisDecrypt is over: it returned, or the process died of a panic.
Over == HasReturned \/ (pc = "Exit" /\ exitStatus = 2)

\* The errors aegisDecrypt returns from within the loop over the slots.
HexErrors == {"encoding/hex: invalid byte", "encoding/hex: odd length hex string"}

SlotErrors ==
    { p \o e : p \in {"slot salt: ", "slot nonce: ", "slot tag: ", "slot key: "},
               e \in HexErrors }
    \cup {"scrypt: N must be > 1 and a power of 2", "scrypt: parameters are too large"}

\* C2: when every password slot before slot k fails authentication and slot
\* k authenticates, aegisDecrypt ends with the master key and with the
\* result (plaintext and error) it has on the envelope holding slot k alone,
\* and the error is none of a slot.
C2_FailingSlotsSkipped ==
    \A k \in 1..Len(Slots) :
        ( /\ Over
          /\ Authenticates(Slots[k], password)
          /\ \A j \in 1..(k - 1) :
                IsPasswordSlot(Slots[j]) => FailsAuthentication(Slots[j], password) )
        => LET one == SingleSlotRun(Slots[k], password)
           IN  /\ masterkey = one.masterkey
               /\ ret = [db |-> one.db, err |-> one.err]
               /\ (exitStatus = 2) = one.panic
               /\ ret.err \notin SlotErrors

\* A slot with a wrong tag, then a slot that opens: the database is decrypted.
C2_Witness ==
    /\ pc = "Filter" /\ Len(Slots) = 2
    /\ FailsAuthentication(Slots[1], password)
    /\ Authenticates(Slots[2], password)
    /\ ret.err = NoErr /\ ret.db = DbPlain32

----------------------------------------------------------------------------
(* C3 *)

\* C3: the iteration on a slot whose type is not 1 changes nothing but the
\* position in the range: no call is made (no decoding, no key derivation, no
\* open), the master key is as before, nothing is returned.
C3_OtherKindsSkipped ==
    [][ (pc = "Slots" /\ i <= Len(Slots) /\ ~IsPasswordSlot(Slots[i]))
        => (pc' = "Slots" /\ i' = i + 1 /\ calls' = calls
            /\ masterkey' = masterkey /\ ret' = ret) ]_vars

\* A slot of another kind with unusable fields, then a slot that opens: the
\* database is decrypted and no call was made on the first slot.
C3_Witness ==
    /\ pc = "Filter" /\ Len(Slots) = 2
    /\ ~IsPasswordSlot(Slots[1]) /\ ~WellFormedSlot(Slots[1])
    /\ CallsOn(1) = {} /\ CallsOn(2) # {}
    /\ ret.err = NoErr

----------------------------------------------------------------------------
(* C4 *)

\* No slot yields a key: there is none, or each is of another kind or fails
\* authentication.
NoSlotYieldsKey ==
    \A k \in 1..Len(Slots) :
        ~IsPasswordSlot(Slots[k]) \/ FailsAuthentication(Slots[k], password)

\* C4: when no slot of the decoded envelope yields a key, the database stage is never entered (its
\* calls are never made) and aegisDecrypt returns the key-recovery error and
\* no plaintext.
C4_NoKeyNoDatabase ==
    (EnvelopeDecoded /\ NoSlotYieldsKey)
    => /\ pc \notin {"Db", "Filter", "Panic"}
       /\ \A fn \in DbStageCalls : ~Called(fn)
       /\ HasReturned => (ret.err = GenericMessage /\ ret.db = <<>>)

\* Two slots, one of another kind and one with a wrong tag: the error is back.
C4_Witness ==
    /\ pc = "Returned" /\ Len(Slots) = 2
    /\ \E k \in 1..2 : ~IsPasswordSlot(Slots[k])
    /\ \E k \in 1..2 : FailsAuthentication(Slots[k], password)
    /\ NoSlotYieldsKey
    /\ ret.err = GenericMessage

----------------------------------------------------------------------------
(* C5 *)

\* aegisDecrypt returned an error from the key-recovery stage: the envelope
\* was decoded and the database stage was not entered.
KeyRecoveryFailed ==
    /\ HasReturned /\ EnvelopeDecoded
    /\ ret.err # NoErr /\ ~Called("base64.DecodeString")

\* The slots the loop made a call on.
TriedSlots == {k \in 1..Len(Slots) : CallsOn(k) # {}}

\* C5 as stated: every failure of the key-recovery stage is the one generic
\* message.
C5_Original == KeyRecoveryFailed => ret.err = GenericMessage

\* C5, amended: a failure of the key-recovery stage is the generic message
\* exactly when every slot the loop tried was well formed (so that it failed
\* by authentication only, whether the password is wrong or the slot
\* corrupt); otherwise it is one of the errors naming a slot field or the
\* scrypt parameters, which names no slot.
C5_AuthFailuresGeneric ==
    KeyRecoveryFailed
    => /\ ret.err \in {GenericMessage} \cup SlotErrors
       /\ (ret.err = GenericMessage)
              <=> (\A k \in TriedSlots : WellFormedSlot(Slots[k]))

\* The right password on a slot whose tag was altered: the generic message.
C5_Witness ==
    /\ KeyRecoveryFailed /\ Len(Slots) = 1 /\ ret.err = GenericMessage
    /\ FailsAuthentication(Slots[1], password)
    /\ \E s \in SlotChoices :
          /\ Authenticates(s, password)
          /\ s.KeyParams.Tag # Slots[1].KeyParams.Tag
          /\ Slots[1] = [s EXCEPT !.KeyParams.Tag = Slots[1].KeyParams.Tag]

----------------------------------------------------------------------------
(* C6 *)

\* The password opens no slot of the envelope.
IncorrectPassword == \A k \in 1..Len(Slots) : ~Authenticates(Slots[k], password)

\* Every text of every password slot is hexadecimal.
SlotTextsDecode ==
    \A k \in 1..Len(Slots) :
        IsPasswordSlot(Slots[k])
        => /\ IsHexText(Slots[k].Salt) /\ IsHexText(Slots[k].KeyParams.Nonce)
           /\ IsHexText(Slots[k].KeyParams.Tag) /\ IsHexText(Slots[k].Key)

\* C6 as stated, on the envelopes whose slot texts all decode: an incorrect
\* password gives the key-recovery error and a nil plaintext.
C6_Original ==
    (HasReturned /\ EnvelopeDecoded /\ SlotTextsDecode /\ IncorrectPassword)
    => (ret.err = GenericMessage /\ ret.db = <<>>)

\* C6, amended: on an envelope whose password slots are all well formed, an
\* incorrect password gives the key-recovery error and a nil plaintext; and
\* whenever aegisDecrypt returns an error the plaintext is nil and main never
\* calls filterAegisVault; once main has logged the error the exit status is 1.
C6_WrongPasswordNoPlaintext ==
    /\ ( /\ HasReturned /\ EnvelopeDecoded /\ IncorrectPassword
         /\ \A k \in 1..Len(Slots) :
               IsPasswordSlot(Slots[k]) => WellFormedSlot(Slots[k]) )
       => (ret.err = GenericMessage /\ ret.db = <<>>)
    /\ (HasReturned /\ ret.err # NoErr)
       => /\ ret.db = <<>>
          /\ pc # "Filter" /\ ~Called("filterAegisVault")
    /\ Called("rlog.Critical") => (pc = "Exit" /\ exitStatus = 1 /\ ret.err # NoErr)

\* The wrong password on two well-formed password slots: main has died.
C6_Witness ==
    /\ pc = "Exit" /\ exitStatus = 1 /\ password = PwWrong
    /\ Len(Slots) = 2
    /\ \A k \in 1..2 : IsPasswordSlot(Slots[k]) /\ WellFormedSlot(Slots[k])
    /\ ret.err = GenericMessage /\ ret.db = <<>>

----------------------------------------------------------------------------
(* C7 *)

\* C7: when a master key is held and the open of the database blob was
\* attempted and aegisDecrypt returned an error, that error is not the
\* key-recovery message and the plaintext is nil.
C7_DbFailureDistinct ==
    (HasReturned /\ ~NoMasterKey(masterkey) /\ Called("cipher.Open")
     /\ ret.err # NoErr)
    => (ret.err # GenericMessage /\ ret.db = <<>>)

\* The 32-byte key was recovered and the blob does not authenticate under it.
C7_Witness ==
    /\ pc = "Returned" /\ masterkey = MK32 /\ Called("cipher.Open")
    /\ ret.err = "cipher: message authentication failed" /\ ret.db = <<>>

----------------------------------------------------------------------------
(* C8 *)

\* A text that base64.StdEncoding decodes: quantums of four characters of
\* the alphabet, the last one padded with one or two "=".
IsB64Text(s) ==
    LET n == Len(s)
        pad == IF n >= 1 /\ s[n] = "="
               THEN (IF n >= 2 /\ s[n - 1] = "=" THEN 2 ELSE 1)
               ELSE 0
    IN  n % 4 = 0 /\ \A k \in 1..(n - pad) : IsB64Char(s[k])

\* The text a decoding call was given.
TextOf(c) ==
    CASE c.arg = "slot.Salt" -> Slots[c.slot].Salt
      [] c.arg = "slot.KeyParams.Nonce" -> Slots[c.slot].KeyParams.Nonce
      [] c.arg = "slot.KeyParams.Tag" -> Slots[c.slot].KeyParams.Tag
      [] c.arg = "slot.Key" -> Slots[c.slot].Key
      [] c.arg = "Params.Nonce" -> encJSON.Header.Params.Nonce
      [] c.arg = "Params.Tag" -> encJSON.Header.Params.Tag
      [] c.arg = "Db" -> encJSON.Db

IsDecodeCall(c) == c.fn \in {"hex.DecodeString", "base64.DecodeString"}

\* The call was given a text that does not decode.
FailedDecode(c) ==
    \/ c.fn = "hex.DecodeString" /\ ~IsHexText(TextOf(c))
    \/ c.fn = "base64.DecodeString" /\ ~IsB64Text(TextOf(c))

\* The error aegisDecrypt returns for a text that does not decode.
DecodeErrorOf(c) ==
    LET t == TextOf(c)
        hexerr == IF \E k \in 1..Len(t) : t[k] \notin HexChars
                  THEN "encoding/hex: invalid byte"
                  ELSE "encoding/hex: odd length hex string"
    IN  CASE c.arg = "slot.Salt" -> "slot salt: " \o hexerr
          [] c.arg = "slot.KeyParams.Nonce" -> "slot nonce: " \o hexerr
          [] c.arg = "slot.KeyParams.Tag" -> "slot tag: " \o hexerr
          [] c.arg = "slot.Key" -> "slot key: " \o hexerr
          [] c.arg = "Params.Nonce" -> "params nonce: " \o hexerr
          [] c.arg = "Params.Tag" -> "params tag: " \o hexerr
          [] c.arg = "Db" -> "illegal base64 data"

DecodeErrors ==
    { p \o e : p \in {"slot salt: ", "slot nonce: ", "slot tag: ", "slot key: ",
                      "params nonce: ", "params tag: "},
               e \in HexErrors }
    \cup {"illegal base64 data"}

\* Some hex or base64 text of the envelope does not decode.
HasUndecodableText ==
    \/ \E k \in 1..Len(Slots) :
          ~(/\ IsHexText(Slots[k].Salt) /\ IsHexText(Slots[k].KeyParams.Nonce)
            /\ IsHexText(Slots[k].KeyParams.Tag) /\ IsHexText(Slots[k].Key))
    \/ ~IsHexText(encJSON.Header.Params.Nonce)
    \/ ~IsHexText(encJSON.Header.Params.Tag)
    \/ ~IsB64Text(encJSON.Db)

CryptoCalls == {"scrypt.Key", "newAES", "aesgcm.Open", "cipher.Open"}

\* C8 as stated: an envelope with a text that does not decode is reported
\* by a decoding error, whatever the password, and no key derivation or
\* AEAD operation was made before.
C8_Original ==
    (HasReturned /\ EnvelopeDecoded /\ HasUndecodableText)
    => /\ ret.err \in DecodeErrors
       /\ \A fn \in CryptoCalls : ~Called(fn)

\* C8, amended: a text is decoded only when the code comes to use it, and a
\* decoding that fails ends aegisDecrypt there, with the error of that text
\* (never the key-recovery message) and a nil plaintext.  Of a slot, the
\* salt is decoded before the key derivation of that slot, and nonce, tag
\* and key after it; the db and the params are decoded only once a master
\* key is held.
C8_DecodeErrorsLazy ==
    \A c \in 1..Len(calls) :
        IsDecodeCall(calls[c])
        => /\ FailedDecode(calls[c])
              => /\ HasReturned
                 /\ ret.err = DecodeErrorOf(calls[c])
                 /\ ret.err # GenericMessage /\ ret.db = <<>>
                 /\ \A d \in (c + 1)..Len(calls) : calls[d].fn = "rlog.Critical"
           /\ LET kdfBefore ==
                      \E d \in 1..(c - 1) :
                          calls[d].fn = "scrypt.Key" /\ calls[d].slot = calls[c].slot
              IN  /\ calls[c].arg = "slot.Salt" => ~kdfBefore
                  /\ calls[c].arg \in {"slot.KeyParams.Nonce", "slot.KeyParams.Tag",
                                       "slot.Key"} => kdfBefore
           /\ calls[c].slot = 0 => ~NoMasterKey(masterkey)

\* A slot whose nonce is no hex: the key was derived, then the decoding
\* failed and its error is back.
C8_Witness ==
    /\ pc = "Returned" /\ Len(Slots) = 1
    /\ IsHexText(Slots[1].Salt) /\ ~IsHexText(Slots[1].KeyParams.Nonce)
    /\ Called("scrypt.Key")
    /\ ret.err = "slot nonce: encoding/hex: odd length hex string"

----------------------------------------------------------------------------
(* C9 *)

JSONErrors ==
    {"invalid character looking for beginning of value",
     "json: cannot unmarshal into Go value"}

\* C9 as stated: bytes that are no JSON, and a text lacking slots, params or
\* db, are rejected by the decoding with its error.
C9_Original ==
    (HasReturned /\ file.readable
     /\ (file.content.kind # "object" \/ DOMAIN file.content.obj # Fields))
    => ret.err \in JSONErrors

\* C9, amended: bytes that are no JSON of the expected shape end aegisDecrypt
\* with the error of json.Unmarshal before any slot is looked at; a JSON
\* object lacking a field is not rejected, the field is read as empty: with
\* no slots list aegisDecrypt returns the key-recovery error.
C9_AbsentFieldsAreEmpty ==
    /\ (pc # "ReadFile" /\ file.readable /\ file.content.kind # "object")
       => /\ HasReturned /\ ret.err \in JSONErrors /\ ret.db = <<>>
          /\ \A c \in 1..Len(calls) :
                calls[c].fn \in {"os.ReadFile", "json.Unmarshal", "rlog.Critical"}
    /\ EnvelopeDecoded
       => /\ ret.err \notin JSONErrors
          /\ "slots" \notin DOMAIN file.content.obj => Slots = <<>>
          /\ "params" \notin DOMAIN file.content.obj
                => encJSON.Header.Params = [Nonce |-> <<>>, Tag |-> <<>>]
          /\ "db" \notin DOMAIN file.content.obj => encJSON.Db = <<>>
          /\ ("slots" \notin DOMAIN file.content.obj /\ HasReturned)
                => ret.err = GenericMessage

\* A JSON object without a slots list: the key-recovery error is back.
C9_Witness ==
    /\ pc = "Returned" /\ EnvelopeDecoded
    /\ "slots" \notin DOMAIN file.content.obj
    /\ "db" \in DOMAIN file.content.obj
    /\ ret.err = GenericMessage

----------------------------------------------------------------------------
(* C10 *)

\* C10: whenever the open of the database blob is attempted, the master key
\* it is attempted with is 32 bytes long.
C10_MasterKeyIs32Bytes ==
    Called("cipher.Open") => Len(masterkey) = aegisKeyLen

----------------------------------------------------------------------------
(***************************************************************************)
(* filterAegisVault (aegis.go) and the part of main() that compiles the    *)
(* regular expression, sorts the vault and leaves.  Strings are sequences  *)
(* of one-character strings.                                               *)
(***************************************************************************)

\* Largest number of entries in a decrypted database.
MaxEntries == 3

UpperLetters ==
    <<"A", "B", "C", "D", "E", "F", "G", "H", "I", "J", "K", "L", "M",
      "N", "O", "P", "Q", "R", "S", "T", "U", "V", "W", "X", "Y", "Z">>

LowerLetters ==
    <<"a", "b", "c", "d", "e", "f", "g", "h", "i", "j", "k", "l", "m",
      "n", "o", "p", "q", "r", "s", "t", "u", "v", "w", "x", "y", "z">>

DecimalDigits == <<"0", "1", "2", "3", "4", "5", "6", "7", "8", "9">>

\* The punctuation of the texts below, with its ASCII code.
Punctuation ==
    { <<"\n", 10>>, <<" ", 32>>, <<"(", 40>>, <<")", 41>>, <<"-", 45>>,
      <<".", 46>>, <<"/", 47>>, <<":", 58>>, <<"=", 61>>, <<"?", 63>> }

Range(f) == { f[k] : k \in DOMAIN f }

Chars ==
    Range(UpperLetters) \cup Range(LowerLetters) \cup Range(DecimalDigits)
    \cup { p[1] : p \in Punctuation }

PositionIn(seq, c) == CHOOSE k \in DOMAIN seq : seq[k] = c

\* The byte value of a character: Go compares strings byte by byte.
Ord ==
    [ c \in Chars |->
        IF c \in Range(UpperLetters) THEN 64 + PositionIn(UpperLetters, c)
        ELSE IF c \in Range(LowerLetters) THEN 96 + PositionIn(LowerLetters, c)
        ELSE IF c \in Range(DecimalDigits) THEN 47 + PositionIn(DecimalDigits, c)
        ELSE (CHOOSE p \in Punctuation : p[1] = c)[2] ]

\* Case folding of the regexp package, on ASCII.
toLower ==
    [ c \in Chars |->
        IF c \in Range(UpperLetters)
        THEN LowerLetters[PositionIn(UpperLetters, c)] ELSE c ]

\* Go: a < b on strings.
RECURSIVE StringLess(_, _)
StringLess(a, b) ==
    IF b = <<>> THEN FALSE
    ELSE IF a = <<>> THEN TRUE
    ELSE IF Ord[Head(a)] # Ord[Head(b)] THEN Ord[Head(a)] < Ord[Head(b)]
    ELSE StringLess(Tail(a), Tail(b))

----------------------------------------------------------------------------
(* regexp *)

FlagFold == <<"(", "?", "i", ")">>

FlagNoFold == <<"(", "?", "-", "i", ")">>

HasPrefixAt(s, k, p) ==
    /\ k + Len(p) - 1 <= Len(s)
    /\ SubSeq(s, k, k + Len(p) - 1) = p

\* The parse of an expression made of literal characters, "." and the flag
\* groups (?i) and (?-i), from position k on; a flag holds until the next
\* flag group.  Any other "(" opens a group, and no expression of CmdLines
\* closes one.
RECURSIVE parseRegexp(_, _, _)
parseRegexp(s, k, fold) ==
    IF k > Len(s) THEN [ok |-> TRUE, prog |-> <<>>]
    ELSE IF HasPrefixAt(s, k, FlagFold) THEN parseRegexp(s, k + 4, TRUE)
    ELSE IF HasPrefixAt(s, k, FlagNoFold) THEN parseRegexp(s, k + 5, FALSE)
    ELSE IF s[k] = "(" THEN [ok |-> FALSE, prog |-> <<>>]
    ELSE LET rest == parseRegexp(s, k + 1, fold)
         IN  [ok |-> rest.ok,
              prog |-> IF rest.ok
                       THEN <<[any |-> s[k] = ".", ch |-> s[k], fold |-> fold]>>
                            \o rest.prog
                       ELSE <<>>]

\* regexp.Compile(expr)
regexpCompile(expr) ==
    LET p == parseRegexp(expr, 1, FALSE)
    IN  [ok |-> p.ok, prog |-> p.prog,
         err |-> IF p.ok THEN NoErr
                 ELSE "error parsing regexp: missing closing )"]

\* One instruction of the program against one character.
AtomMatches(atom, c) ==
    IF atom.any THEN c # "\n"
    ELSE IF atom.fold THEN toLower[atom.ch] = toLower[c]
    ELSE atom.ch = c

\* (*Regexp).MatchString: the expression matches somewhere in s.
MatchString(re, s) ==
    \E start \in 0..Len(s) :
        /\ start + Len(re) <= Len(s)
        /\ \A j \in 1..Len(re) : AtomMatches(re[j], s[start + j])

\* The expression main compiles for the arguments of the command line.
PatternText_CaseSensitive(a) == IF Len(a) > 0 THEN a[1] ELSE <<".">>

PatternText(a) == IF Len(a) > 0 THEN FlagFold \o a[1] ELSE <<".">>

----------------------------------------------------------------------------
(* gotp *)

\* gotp.NewDefaultTOTP: 6 digits, an interval of 30 seconds (and SHA-1).
DefaultDigits == 6

DefaultInterval == 30

Base32Alphabet == UpperLetters \o <<"2", "3", "4", "5", "6", "7">>

\* The bytes of the 5-bit groups of s from position k on; acc holds the
\* nbits bits not yet written.
RECURSIVE Base32Bytes(_, _, _, _)
Base32Bytes(s, k, acc, nbits) ==
    IF k > Len(s) THEN <<>>
    ELSE LET a == acc * 32 + (PositionIn(Base32Alphabet, s[k]) - 1)
             n == nbits + 5
         IN  IF n >= 8
             THEN <<a \div (2 ^ (n - 8))>>
                  \o Base32Bytes(s, k + 1, a % (2 ^ (n - 8)), n - 8)
             ELSE Base32Bytes(s, k + 1, a, n)

\* gotp byteSecret: the secret is padded with "=" to a multiple of 8
\* characters and decoded with base32.StdEncoding; a last group of 1, 3 or 6
\* characters, or a character outside the alphabet, is corrupt input.
Base32DecodeString(s) ==
    LET good == /\ \A k \in 1..Len(s) : s[k] \in Range(Base32Alphabet)
                /\ (Len(s) % 8) \in {0, 2, 4, 5, 7}
    IN  [ok |-> good, val |-> IF good THEN Base32Bytes(s, 1, 0, 0) ELSE <<>>]

\* HMAC-SHA-1 of the 8-byte counter under the key followed by the dynamic
\* truncation, as a perfect primitive: a fixed function of key and counter.
RECURSIVE Mix(_, _)
Mix(h, bytes) ==
    IF bytes = <<>> THEN h
    ELSE Mix((h * 31 + Head(bytes) + 1) % (2 ^ 25), Tail(bytes))

TruncatedHMAC(key, counter) ==
    Mix(Mix(5381, key), <<counter % 256, (counter \div 256) % 256>>)

\* The decimal text of v, zero-padded to exactly n characters.
RECURSIVE ZeroPadded(_, _)
ZeroPadded(v, n) ==
    IF n = 0 THEN <<>>
    ELSE Append(ZeroPadded(v \div 10, n - 1), DecimalDigits[(v % 10) + 1])

\* gotp generateOTP: panics when the secret does not decode.
generateOTP(secret, counter, digits) ==
    LET key == Base32DecodeString(secret)
    IN  [panic |-> ~key.ok,
         token |-> IF key.ok
                   THEN ZeroPadded(TruncatedHMAC(key.val, counter) % (10 ^ digits),
                                   digits)
                   ELSE <<>>]

\* A token computed with the record's own digits and period, where it has
\* them.
TOTPNow_OfRecord(entry, t) ==
    generateOTP(entry.Info.Secret,
                t \div (IF entry.Info.Period = 0 THEN DefaultInterval
                        ELSE entry.Info.Period),
                IF entry.Info.Digits = 0 THEN DefaultDigits ELSE entry.Info.Digits)

\* gotp.NewDefaultTOTP(entry.Info.Secret).Now() at time t.
TOTPNow(entry, t) ==
    generateOTP(entry.Info.Secret, t \div DefaultInterval, DefaultDigits)

----------------------------------------------------------------------------
(* The decrypted database *)

TotpKind == <<"t", "o", "t", "p">>

HotpKind == <<"h", "o", "t", "p">>

\* The secret "GEZDGNBV" ("12345"), a second one, and a text that is not
\* base32: a digit outside the alphabet.
SecretA == <<"G", "E", "Z", "D", "G", "N", "B", "V">>

SecretB == <<"M", "F", "R", "G", "G">>

SecretBadChar == <<"1">>

InfoOf(secret, digits, algo, period) ==
    [secret |-> secret, digits |-> digits, algo |-> algo, period |-> period]

\* One object of the "entries" array, with the keys of present only.
JSONEntry(present, type, name, issuer, info) ==
    [ k \in present |->
        CASE k = "type" -> type
          [] k = "name" -> name
          [] k = "issuer" -> issuer
          [] k = "info" -> info ]

EntryKeys == {"type", "name", "issuer", "info"}

\* Two entries of one issuer and name that differ in digits, algorithm and
\* period only.
EntryGH6 ==
    JSONEntry(EntryKeys, TotpKind, <<"g", "h">>, <<"G", "H">>,
              InfoOf(SecretA, 6, "SHA1", 30))

EntryGH8 ==
    JSONEntry(EntryKeys, TotpKind, <<"g", "h">>, <<"G", "H">>,
              InfoOf(SecretA, 8, "SHA256", 60))

\* An entry of a kind other than "totp", of the same issuer and name.
EntryHotp ==
    JSONEntry(EntryKeys, HotpKind, <<"g", "h">>, <<"G", "H">>,
              InfoOf(SecretA, 6, "SHA1", 30))

\* An entry without issuer and name, and without digits, algorithm, period.
EntryAnonymous ==
    JSONEntry({"type", "info"}, TotpKind, <<>>, <<>>, InfoOf(SecretB, 0, "", 0))

\* Entries whose secret is not base32; the second is named like the secret
\* of the first entries.
EntryBadSecret ==
    JSONEntry(EntryKeys, TotpKind, <<>>, <<"b">>,
              InfoOf(SecretBadChar, 6, "SHA1", 30))

EntryNamedAsSecret ==
    JSONEntry(EntryKeys, TotpKind, <<"M", "F", "R">>, <<"h">>,
              InfoOf(SecretB, 6, "SHA1", 30))

EntryChoices ==
    { EntryGH6, EntryGH8, EntryHotp, EntryAnonymous, EntryBadSecret,
      EntryNamedAsSecret }

EntryLists ==
    UNION { [1..n -> EntryChoices] : n \in 0..MaxEntries }

\* The plaintext aegisDecrypt returned: JSON of the expected shape, or not
\* JSON at all.
PlainJSONs ==
    { [kind |-> "garbage", entries |-> <<>>] }
    \cup { [kind |-> "object", entries |-> l] : l \in EntryLists }

\* flag.Args(): no regular expression, or one.
UserPatterns ==
    { <<>>,
      <<"G", "H">>,
      <<"m", "f", "r">>,
      <<"b">>,
      <<"(">>,
      <<"(", "?", "-", "i", ")", "g", "H">> }

CmdLines == { <<>> } \cup { <<p>> : p \in UserPatterns }

\* Two times in successive intervals of 30 seconds.
Times == {59, 60}

----------------------------------------------------------------------------
(* filterAegisVault *)

ZeroInfo == [Secret |-> <<>>, Digits |-> 0, Algo |-> "", Period |-> 0]

\* json.Unmarshal of one entry: a key that is absent leaves its field zero.
UnmarshalEntry(j) ==
    [ Type |-> IF "type" \in DOMAIN j THEN j["type"] ELSE <<>>,
      Name |-> IF "name" \in DOMAIN j THEN j["name"] ELSE <<>>,
      Issuer |-> IF "issuer" \in DOMAIN j THEN j["issuer"] ELSE <<>>,
      Info |-> IF "info" \in DOMAIN j
               THEN [ Secret |-> j["info"].secret, Digits |-> j["info"].digits,
                      Algo |-> j["info"].algo, Period |-> j["info"].period ]
               ELSE ZeroInfo ]

\* json.Unmarshal(plainJSON, &vault)
UnmarshalVault(plain) ==
    IF plain.kind = "object"
    THEN [ok |-> TRUE, err |-> NoErr,
          val |-> [Entries |-> [k \in DOMAIN plain.entries |->
                                   UnmarshalEntry(plain.entries[k])]]]
    ELSE [ok |-> FALSE,
          err |-> "invalid character looking for beginning of value",
          val |-> [Entries |-> <<>>]]

UnknownOTPType ==
    <<"U", "n", "k", "n", "o", "w", "n", " ", "O", "T", "P", " ",
      "t", "y", "p", "e", ":", " ">>

\* An entry of another kind ends the loop.
EntryToken_UnknownAborts(entry, t) ==
    IF entry.Type = TotpKind THEN TOTPNow(entry, t)
    ELSE [panic |-> TRUE, token |-> UnknownOTPType \o entry.Type]

\* token := "Unknown OTP type: " + entry.Type
\* if entry.Type == "totp" { token = gotp.NewDefaultTOTP(...).Now() }
EntryToken(entry, t) ==
    IF entry.Type = TotpKind THEN TOTPNow(entry, t)
    ELSE [panic |-> FALSE, token |-> UnknownOTPType \o entry.Type]

\* The secret is matched as well.
Keeps_SecretToo(re, entry) ==
    \/ MatchString(re, entry.Issuer) \/ MatchString(re, entry.Name)
    \/ MatchString(re, entry.Info.Secret)

\* rematch.MatchString(entry.Issuer) || rematch.MatchString(entry.Name)
Keeps(re, entry) ==
    MatchString(re, entry.Issuer) \/ MatchString(re, entry.Name)

\* otpEntry{Issuer: entry.Issuer, Account: entry.Name, Token: token}
MkOtpEntry(entry, token) ==
    [Issuer |-> entry.Issuer, Account |-> entry.Name, Token |-> token]

----------------------------------------------------------------------------
(* sort.Slice(vault, less) *)

compositeKey(v) == v.Issuer \o <<"/">> \o v.Account

\* Entries of equal keys count as out of order.
less_NotStrict(a, b) == ~StringLess(compositeKey(a), compositeKey(b))

\* key1 > key2
less(a, b) == StringLess(compositeKey(b), compositeKey(a))

Swap(data, j, k) == [data EXCEPT ![j] = data[k], ![k] = data[j]]

\* for j := i; j > a && less(data[j], data[j-1]); j-- { swap }
RECURSIVE SinkDown(_, _)
SinkDown(data, j) ==
    IF j > 1 /\ less(data[j], data[j - 1])
    THEN SinkDown(Swap(data, j, j - 1), j - 1)
    ELSE data

\* sort.Slice on up to 12 elements is an insertion sort.
RECURSIVE insertionSort(_, _)
insertionSort(data, k) ==
    IF k > Len(data) THEN data ELSE insertionSort(SinkDown(data, k), k + 1)

sortSlice(data) == insertionSort(data, 2)

----------------------------------------------------------------------------
(* main, from the regular expression to the output *)

FilterInit ==
    /\ plainJSON \in PlainJSONs
    /\ args \in CmdLines
    /\ now \in Times
    /\ fpc = "Compile"
    /\ rematch = <<>>
    /\ vaultJSON = [Entries |-> <<>>]
    /\ entryIdx = 1
    /\ tokens = <<>>
    /\ vault = <<>>
    /\ ferr = NoErr
    /\ fexit = -1

\* aegisDecrypt is not running.
DecryptIdle ==
    /\ file = [readable |-> FALSE,
               content |-> [kind |-> "garbage",
                            obj |-> JSONObject({}, <<>>, ZeroParams, <<>>)]]
    /\ password = <<>>
    /\ pc = "Idle"
    /\ encJSON = ZeroEnvelope
    /\ i = 1
    /\ masterkey = <<>>
    /\ ret = [db |-> <<>>, err |-> NoErr]
    /\ calls = <<>>
    /\ exitStatus = -1

InitFilter ==
    DecryptIdle /\ PasswordIdle /\ MainIdle /\ OutputIdle /\ InputIdle /\ FilterInit

\* main: r := "."; if len(flag.Args()) > 0 { r = "(?i)" + flag.Args()[0] }
\* rematch, err := regexp.Compile(r); if err != nil { die(err) }
Compile ==
    /\ fpc = "Compile"
    /\ LET c == regexpCompile(PatternText(args))
       IN  IF c.ok
           THEN /\ rematch' = c.prog
                /\ fpc' = "Unmarshal"
                /\ UNCHANGED ferr
           ELSE /\ ferr' = c.err
                /\ fpc' = "Die"
                /\ UNCHANGED rematch
    /\ UNCHANGED <<plainJSON, args, now, vaultJSON, entryIdx, tokens, vault, fexit>>
    /\ UNCHANGED <<decryptVars, passwordVars, mainVars, outputVars, inputVars>>

\* filterAegisVault: json.Unmarshal(plainJSON, &vault); ret := []otpEntry{}
FilterUnmarshal ==
    /\ fpc = "Unmarshal"
    /\ LET u == UnmarshalVault(plainJSON)
       IN  IF u.ok
           THEN /\ vaultJSON' = u.val
                /\ fpc' = "Entries"
                /\ UNCHANGED ferr
           ELSE /\ ferr' = u.err
                /\ fpc' = "Die"
                /\ UNCHANGED vaultJSON
    /\ UNCHANGED <<plainJSON, args, now, rematch, entryIdx, tokens, vault, fexit>>
    /\ UNCHANGED <<decryptVars, passwordVars, mainVars, outputVars, inputVars>>

\* A loop body that tests the pattern first and makes a token only for an
\* entry the pattern keeps.
LoopBody_MatchFirst(entry, re, t) ==
    IF Keeps(re, entry)
    THEN [panic |-> EntryToken(entry, t).panic,
          token |-> EntryToken(entry, t).token, keep |-> TRUE]
    ELSE [panic |-> FALSE, token |-> <<>>, keep |-> FALSE]

\* The body of the loop for one entry: the token first (gotp may panic),
\* then the test of the pattern.
LoopBody(entry, re, t) ==
    [panic |-> EntryToken(entry, t).panic,
     token |-> EntryToken(entry, t).token,
     keep |-> Keeps(re, entry)]

\* for _, entry := range vault.Entries { ... }: one iteration.
EntryStep ==
    /\ fpc = "Entries"
    /\ entryIdx <= Len(vaultJSON.Entries)
    /\ LET entry == vaultJSON.Entries[entryIdx]
           t == LoopBody(entry, rematch, now)
       IN  IF t.panic
           THEN /\ fpc' = "Panic"
                /\ UNCHANGED <<entryIdx, tokens, vault>>
           ELSE /\ tokens' = Append(tokens, t.token)
                /\ vault' = IF t.keep
                            THEN Append(vault, MkOtpEntry(entry, t.token))
                            ELSE vault
                /\ entryIdx' = entryIdx + 1
                /\ UNCHANGED fpc
    /\ UNCHANGED <<plainJSON, args, now, rematch, vaultJSON, ferr, fexit>>
    /\ UNCHANGED <<decryptVars, passwordVars, mainVars, outputVars, inputVars>>

\* return ret, nil
FilterReturn ==
    /\ fpc = "Entries"
    /\ entryIdx > Len(vaultJSON.Entries)
    /\ fpc' = "Filtered"
    /\ UNCHANGED <<plainJSON, args, now, rematch, vaultJSON, entryIdx, tokens,
                   vault, ferr, fexit>>
    /\ UNCHANGED <<decryptVars, passwordVars, mainVars, outputVars, inputVars>>

\* main: if len(vault) == 0 { rlog.Info("No matching entries found."); os.Exit(1) }
NoMatch ==
    /\ fpc = "Filtered"
    /\ Len(vault) = 0
    /\ fpc' = "Exit"
    /\ fexit' = 1
    /\ UNCHANGED <<plainJSON, args, now, rematch, vaultJSON, entryIdx, tokens,
                   vault, ferr>>
    /\ UNCHANGED <<decryptVars, passwordVars, mainVars, outputVars, inputVars>>

\* main: sort.Slice(vault, func(i, j int) bool { ... return key1 > key2 })
SortVault ==
    /\ fpc = "Filtered"
    /\ Len(vault) # 0
    /\ vault' = sortSlice(vault)
    /\ fpc' = "Sorted"
    /\ UNCHANGED <<plainJSON, args, now, rematch, vaultJSON, entryIdx, tokens,
                   ferr, fexit>>
    /\ UNCHANGED <<decryptVars, passwordVars, mainVars, outputVars, inputVars>>

\* main: the output switch, then the end of main.
Output ==
    /\ fpc = "Sorted"
    /\ fpc' = "Exit"
    /\ fexit' = 0
    /\ UNCHANGED <<plainJSON, args, now, rematch, vaultJSON, entryIdx, tokens,
                   vault, ferr>>
    /\ UNCHANGED <<decryptVars, passwordVars, mainVars, outputVars, inputVars>>

\* main: if err != nil { die(err) }
FilterDie ==
    /\ fpc = "Die"
    /\ fpc' = "Exit"
    /\ fexit' = 1
    /\ UNCHANGED <<plainJSON, args, now, rematch, vaultJSON, entryIdx, tokens,
                   vault, ferr>>
    /\ UNCHANGED <<decryptVars, passwordVars, mainVars, outputVars, inputVars>>

\* The panic of gotp ends the process with status 2.
TokenPanic ==
    /\ fpc = "Panic"
    /\ fpc' = "Exit"
    /\ fexit' = 2
    /\ UNCHANGED <<plainJSON, args, now, rematch, vaultJSON, entryIdx, tokens,
                   vault, ferr>>
    /\ UNCHANGED <<decryptVars, passwordVars, mainVars, outputVars, inputVars>>

NextFilter ==
    \/ Compile
    \/ FilterUnmarshal
    \/ EntryStep
    \/ FilterReturn
    \/ NoMatch
    \/ SortVault
    \/ Output
    \/ FilterDie
    \/ TokenPanic

SpecFilter == InitFilter /\ [][NextFilter]_vars

----------------------------------------------------------------------------
(* Vocabulary of the properties of the filter *)

Entries == vaultJSON.Entries

\* filterAegisVault has returned its result and main has not sorted it yet.
Filtered == fpc = "Filtered"

\* The entry at index k went through the loop body.
Visited(k) == k <= Len(tokens)

\* The token the loop computes for the entry at index k.
OwnToken(k) ==
    IF Entries[k].Type = TotpKind
    THEN ZeroPadded(TruncatedHMAC(Base32DecodeString(Entries[k].Info.Secret).val,
                                  now \div 30) % 1000000, 6)
    ELSE UnknownOTPType \o Entries[k].Type

\* The output entry of the entry at index k.
OutputOf(k) ==
    [Issuer |-> Entries[k].Issuer, Account |-> Entries[k].Name,
     Token |-> OwnToken(k)]

\* The output entries of the indices of K, in the order of the database.
RECURSIVE SelectedFrom(_, _)
SelectedFrom(K, k) ==
    IF k > Len(Entries) THEN <<>>
    ELSE (IF k \in K THEN <<OutputOf(k)>> ELSE <<>>) \o SelectedFrom(K, k + 1)

SelectedBy(K) == SelectedFrom(K, 1)

\* The indices whose issuer or name the compiled expression matches.
MatchedByPattern ==
    { k \in 1..Len(Entries) :
        MatchString(rematch, Entries[k].Issuer)
        \/ MatchString(rematch, Entries[k].Name) }

LowerText(s) == [k \in DOMAIN s |-> toLower[s[k]]]

\* The user's expression p matches s when letter case is ignored: the
\* expression in lower case, as the user wrote it, matches s in lower case.
MatchesIgnoringCase(p, s) ==
    MatchString(regexpCompile(LowerText(p)).prog, LowerText(s))

\* The indices whose issuer or name the user's expression matches, ignoring
\* letter case.
MatchedIgnoringCase ==
    { k \in 1..Len(Entries) :
        MatchesIgnoringCase(args[1], Entries[k].Issuer)
        \/ MatchesIgnoringCase(args[1], Entries[k].Name) }

\* The expression p holds a group that clears the i flag.
ClearsFold(p) == \E k \in 1..Len(p) : HasPrefixAt(p, k, FlagNoFold)

----------------------------------------------------------------------------
(* C11 *)

\* C11: an entry whose kind is not "totp" gets the token "Unknown OTP type: "
\* followed by its kind and never ends the loop: the panic of the loop is
\* never at such an entry, and when filterAegisVault returns it has visited
\* every entry, and the entry itself and every entry after it that matches
\* is in the result with its own token.
C11_UnknownKindIsSoft ==
    \A k \in 1..Len(Entries) :
        Entries[k].Type # TotpKind
        => /\ Visited(k) => tokens[k] = UnknownOTPType \o Entries[k].Type
           /\ fpc = "Panic" => entryIdx # k
           /\ Filtered
              => /\ Len(tokens) = Len(Entries)
                 /\ \A j \in k..Len(Entries) :
                        Keeps(rematch, Entries[j])
                        => \E m \in 1..Len(vault) : vault[m] = OutputOf(j)

\* A database of an "hotp" entry followed by a "totp" entry, no regular
\* expression: both are in the result, the first with the sentinel token.
C11_Witness ==
    /\ Filtered /\ args = <<>>
    /\ Len(Entries) = 2
    /\ Entries[1].Type = HotpKind /\ Entries[2].Type = TotpKind
    /\ Len(vault) = 2
    /\ vault[1].Token = UnknownOTPType \o HotpKind
    /\ Len(vault[2].Token) = 6

----------------------------------------------------------------------------
(* C12 *)

\* C12: the result of filterAegisVault is, in the order of the database,
\* one otpEntry {issuer, name, token} for each entry whose issuer or name
\* the expression matches, and nothing else.
C12_KeptIffIssuerOrNameMatches ==
    Filtered => vault = SelectedBy(MatchedByPattern)

\* The expression "mfr" matches the secret of the first entry and the name
\* of the second: only the second is kept.
C12_Witness ==
    /\ Filtered /\ args = << <<"m", "f", "r">> >>
    /\ Len(Entries) = 2
    /\ MatchString(rematch, Entries[1].Info.Secret)
    /\ ~Keeps(rematch, Entries[1])
    /\ Len(vault) = 1 /\ vault[1].Account = Entries[2].Name

----------------------------------------------------------------------------
(* C13 *)

\* C13: without a regular expression on the command line, the result of
\* filterAegisVault holds every entry of the database, one output entry
\* each, in the order of the database.
C13_NoPatternKeepsAll ==
    (Filtered /\ args = <<>>) => vault = SelectedBy(1..Len(Entries))

----------------------------------------------------------------------------
(* C14 *)

\* C14 as stated: for every expression of the user, the entries kept are
\* those whose issuer or name the expression matches ignoring letter case.
C14_Original ==
    (Filtered /\ Len(args) > 0) => vault = SelectedBy(MatchedIgnoringCase)

\* C14, amended: for every expression of the user that has no (?-i) group,
\* the entries kept are those whose issuer or name the expression matches
\* ignoring letter case.
C14_CaseInsensitive ==
    (Filtered /\ Len(args) > 0 /\ ~ClearsFold(args[1]))
    => vault = SelectedBy(MatchedIgnoringCase)

\* The expression "GH" keeps an entry of issuer "GH" and an entry of issuer
\* "h" and name "MFR" is dropped.
C14_Witness ==
    /\ Filtered /\ args = << <<"G", "H">> >>
    /\ Len(Entries) = 2
    /\ Entries[1].Name = <<"g", "h">> /\ Entries[2].Issuer = <<"h">>
    /\ Len(vault) = 1 /\ vault[1].Account = <<"g", "h">>

----------------------------------------------------------------------------
(* C15 *)

\* The entries of v whose composite key is that of x.
OfKey(v, x) ==
    LET Same(y) == compositeKey(y) = compositeKey(x)
    IN  SelectSeq(v, Same)

----------------------------------------------------------------------------
(* C16 *)

\* C16: the token of every "totp" entry is computed with 6 digits over
\* intervals of 30 seconds, whatever its digits, period and algo fields:
\* it has 6 characters, it is the token of the defaults, and two entries of
\* one secret have one token.
C16_FixedDefaults ==
    \A k \in 1..Len(tokens) :
        Entries[k].Type = TotpKind
        => /\ Len(tokens[k]) = 6
           /\ tokens[k] = OwnToken(k)
           /\ \A j \in 1..Len(tokens) :
                  ( /\ Entries[j].Type = TotpKind
                    /\ Entries[j].Info.Secret = Entries[k].Info.Secret )
                  => tokens[j] = tokens[k]

\* Two visited "totp" entries of one secret, the second with 8 digits,
\* SHA256 and a period of 60 seconds.
C16_Witness ==
    /\ Len(tokens) >= 2
    /\ Entries[1].Type = TotpKind /\ Entries[2].Type = TotpKind
    /\ Entries[1].Info.Secret = Entries[2].Info.Secret
    /\ Entries[1].Info.Digits = 6 /\ Entries[2].Info.Digits = 8
    /\ Entries[2].Info.Period = 60 /\ Entries[2].Info.Algo = "SHA256"
    /\ tokens[1] = tokens[2]

----------------------------------------------------------------------------
(* C17 *)

\* The digit count of an entry: its own, 6 when it has none.
DigitsOf(entry) == IF entry.Info.Digits = 0 THEN 6 ELSE entry.Info.Digits

\* C17: the token of a "totp" entry is the truncated HMAC value modulo
\* 10^digits, zero-padded to digits characters, digits being the digit
\* count of the entry.
C17_TokenHasRecordDigits ==
    \A k \in 1..Len(tokens) :
        Entries[k].Type = TotpKind
        => /\ Len(tokens[k]) = DigitsOf(Entries[k])
           /\ tokens[k] =
                ZeroPadded(
                    TruncatedHMAC(Base32DecodeString(Entries[k].Info.Secret).val,
                                  now \div 30) % (10 ^ DigitsOf(Entries[k])),
                    DigitsOf(Entries[k]))

----------------------------------------------------------------------------
(***************************************************************************)
(* readPassword (aegis.go), and its caller up to the end of the process.   *)
(***************************************************************************)

\* Largest number of deliveries of a piped standard input.
MaxChunks == 2

\* buf := make([]byte, 256)
passwordBufLen == 256

CR == 13

LF == 10

NUL == 0

\* strings.TrimRight(s, "\r\n\x00")
TrimRight(s) ==
    LET kept == { k \in 1..Len(s) : s[k] \notin {CR, LF, NUL} }
    IN  IF kept = {} THEN <<>>
        ELSE SubSeq(s, 1, CHOOSE k \in kept : \A j \in kept : j <= k)

\* What one write of the other end of the pipe delivers: a password with
\* and without line end, a lone line end, a part of a password, and a
\* password of 257 bytes with its line end.
PipeChunks ==
    { PwA \o <<LF>>, PwA \o <<CR, LF>>, PwA, <<LF>>, <<112>>,
      Fill(passwordBufLen, 120) \o <<65, LF>> }

PipeStreams == UNION { [1..n -> PipeChunks] : n \in 0..MaxChunks }

\* Standard input: a terminal (the line typed, or the end of input, with
\* term.MakeRaw failing or not), a pipe or file, or a descriptor that Stat
\* fails on.
Stdins ==
    { [mode |-> "chardev", makeRawFails |-> f, event |-> ev, chunks |-> <<p>>] :
        f \in BOOLEAN, ev \in {"line", "eof"}, p \in Passwords }
    \cup { [mode |-> "pipe", makeRawFails |-> FALSE, event |-> "line",
            chunks |-> c] : c \in PipeStreams }
    \cup { [mode |-> "staterr", makeRawFails |-> FALSE, event |-> "line",
            chunks |-> <<>>] }

\* os.Stdin.Read(buf): the bytes of the first delivery that fit, and the
\* buffer after the read; io.EOF on an empty stream.
StdinRead(chunks) ==
    IF chunks = <<>>
    THEN [err |-> "EOF", buf |-> Fill(passwordBufLen, NUL)]
    ELSE LET n == IF Len(chunks[1]) < passwordBufLen
                  THEN Len(chunks[1]) ELSE passwordBufLen
         IN  [err |-> NoErr,
              buf |-> SubSeq(chunks[1], 1, n) \o Fill(passwordBufLen - n, NUL)]

PasswordInit ==
    /\ stdin \in Stdins
    /\ raw = FALSE
    /\ everRaw = FALSE
    /\ ppc = "Stat"
    /\ pwret = [password |-> <<>>, err |-> NoErr]
    /\ pexit = -1

InitPassword ==
    DecryptIdle /\ FilterIdle /\ MainIdle /\ OutputIdle /\ InputIdle /\ PasswordInit

\* readPassword returns (password, err).
PasswordReturns(p, err) ==
    /\ pwret' = [password |-> p, err |-> err]
    /\ ppc' = "Returned"

\* fi, err := os.Stdin.Stat(); the test of os.ModeCharDevice
StatStdin ==
    /\ ppc = "Stat"
    /\ IF stdin.mode = "staterr"
       THEN PasswordReturns(<<>>, "stat /dev/stdin: bad file descriptor")
       ELSE /\ ppc' = IF stdin.mode = "chardev" THEN "MakeRaw" ELSE "ReadPipe"
            /\ UNCHANGED pwret
    /\ UNCHANGED <<stdin, raw, everRaw, pexit>>
    /\ UNCHANGED <<decryptVars, filterVars, mainVars, outputVars, inputVars>>

\* savedState, err := term.MakeRaw(fd); defer term.Restore(fd, savedState)
MakeRaw ==
    /\ ppc = "MakeRaw"
    /\ IF stdin.makeRawFails
       THEN /\ PasswordReturns(<<>>, "inappropriate ioctl for device")
            /\ UNCHANGED <<raw, everRaw>>
       ELSE /\ raw' = TRUE
            /\ everRaw' = TRUE
            /\ ppc' = "ReadTerminal"
            /\ UNCHANGED pwret
    /\ UNCHANGED <<stdin, pexit>>
    /\ UNCHANGED <<decryptVars, filterVars, mainVars, outputVars, inputVars>>

\* password, err = terminal.ReadPassword("Enter password: "), then the
\* return with the deferred term.Restore.
ReadTerminal ==
    /\ ppc = "ReadTerminal"
    /\ IF stdin.event = "eof"
       THEN PasswordReturns(<<>>, "EOF")
       ELSE PasswordReturns(stdin.chunks[1], NoErr)
    /\ raw' = FALSE
    /\ UNCHANGED <<stdin, everRaw, pexit>>
    /\ UNCHANGED <<decryptVars, filterVars, mainVars, outputVars, inputVars>>

\* buf := make([]byte, 256); os.Stdin.Read(buf);
\* password = strings.TrimRight(string(buf), "\r\n\x00")
ReadPipe ==
    /\ ppc = "ReadPipe"
    /\ LET r == StdinRead(stdin.chunks)
       IN  IF r.err # NoErr
           THEN PasswordReturns(<<>>, r.err)
           ELSE PasswordReturns(TrimRight(r.buf), NoErr)
    /\ UNCHANGED <<stdin, raw, everRaw, pexit>>
    /\ UNCHANGED <<decryptVars, filterVars, mainVars, outputVars, inputVars>>

\* A SIGTERM, SIGHUP or SIGINT sent to the process while it waits for the
\* password: no handler is installed, the process ends at once and no
\* deferred call runs.
Signal ==
    /\ ppc \in {"ReadTerminal", "ReadPipe"}
    /\ ppc' = "Exit"
    /\ pexit' = 143
    /\ UNCHANGED <<stdin, raw, everRaw, pwret>>
    /\ UNCHANGED <<decryptVars, filterVars, mainVars, outputVars, inputVars>>

\* The caller: if err != nil { die(err) }
PasswordDie ==
    /\ ppc = "Returned"
    /\ pwret.err # NoErr
    /\ ppc' = "Exit"
    /\ pexit' = 1
    /\ UNCHANGED <<stdin, raw, everRaw, pwret>>
    /\ UNCHANGED <<decryptVars, filterVars, mainVars, outputVars, inputVars>>

\* The caller goes on with the password: the rest of main ends in die (a
\* decryption error, a parse error) or in the regular end of the process.
PasswordUsed ==
    /\ ppc = "Returned"
    /\ pwret.err = NoErr
    /\ \E status \in {0, 1} :
          /\ ppc' = "Exit"
          /\ pexit' = status
    /\ UNCHANGED <<stdin, raw, everRaw, pwret>>
    /\ UNCHANGED <<decryptVars, filterVars, mainVars, outputVars, inputVars>>

NextPassword ==
    \/ StatStdin
    \/ MakeRaw
    \/ ReadTerminal
    \/ ReadPipe
    \/ Signal
    \/ PasswordDie
    \/ PasswordUsed

SpecPassword == InitPassword /\ [][NextPassword]_vars

----------------------------------------------------------------------------
(* C18 *)

\* Control has left readPassword: it returned, or the process ended.
PasswordReadOver == ppc \in {"Returned", "Exit"}

\* C18: once control has left readPassword the terminal is not in raw mode,
\* whichever way it left (a password, a read error, an interrupted read),
\* so it is not in raw mode when the process ends; and the terminal is put
\* into raw mode only when standard input is a character device.
C18_RawModeRestored ==
    /\ PasswordReadOver => ~raw
    /\ everRaw => stdin.mode = "chardev"

----------------------------------------------------------------------------
(* C19 *)

\* All the bytes of the stream, in order.
RECURSIVE Flatten(_)
Flatten(chunks) ==
    IF chunks = <<>> THEN <<>> ELSE Head(chunks) \o Flatten(Tail(chunks))

\* C19: from a pipe or file, readPassword returns the bytes of the stream
\* without its trailing CR, LF and NUL bytes.
C19_PipedPasswordExact ==
    (ppc = "Returned" /\ stdin.mode = "pipe" /\ pwret.err = NoErr)
    => pwret.password = TrimRight(Flatten(stdin.chunks))

----------------------------------------------------------------------------
(***************************************************************************)
(* parseFlags and main (main.go).  What main calls is modelled by its      *)
(* outcome, a success or an error; trace records the calls and the         *)
(* printing in order.                                                      *)
(***************************************************************************)

\* Largest number of arguments after the flags.
MaxArgs == 2

\* The command lines: any combination of the flags, with and without
\* --input, followed by up to MaxArgs arguments.
CommandLines ==
    { [flags |-> [input |-> in, fuzzy |-> fu, fzf |-> fz, plain |-> pl,
                  json |-> js, setkeyring |-> sk, usekeyring |-> uk,
                  version |-> ve],
       nargs |-> n] :
        in \in {"", "*.json"}, fu \in BOOLEAN, fz \in BOOLEAN, pl \in BOOLEAN,
        js \in BOOLEAN, sk \in BOOLEAN, uk \in BOOLEAN, ve \in BOOLEAN,
        n \in 0..MaxArgs }

ErrNoInput == "please specify input file with --input"

ErrManyFormats == "please only specify ONE output format"

ErrManyArgs == "specify one or zero regular expressions to match"

\* The number of output formats asked for.
OutputFormats(f) ==
    Cardinality({ k \in {"fuzzy", "fzf", "json", "plain"} : f[k] })

\* The checks come before the test of --set-keyring.
parseFlags_ChecksFirst(a) ==
    LET f == a.flags
    IN  IF f.version
        THEN [exit |-> TRUE, err |-> NoErr, flags |-> f]
        ELSE IF f.input = ""
        THEN [exit |-> FALSE, err |-> ErrNoInput, flags |-> ZeroFlags]
        ELSE IF OutputFormats(f) > 1
        THEN [exit |-> FALSE, err |-> ErrManyFormats, flags |-> ZeroFlags]
        ELSE IF a.nargs > 1
        THEN [exit |-> FALSE, err |-> ErrManyArgs, flags |-> ZeroFlags]
        ELSE [exit |-> FALSE, err |-> NoErr,
              flags |-> [f EXCEPT !.plain = f.plain \/ f.fzf]]

\* The count of the arguments is not checked.
parseFlags_NoArgsCheck(a) ==
    LET f == a.flags
    IN  IF f.setkeyring
        THEN [exit |-> FALSE, err |-> NoErr, flags |-> f]
        ELSE IF f.version
        THEN [exit |-> TRUE, err |-> NoErr, flags |-> f]
        ELSE IF f.input = ""
        THEN [exit |-> FALSE, err |-> ErrNoInput, flags |-> ZeroFlags]
        ELSE IF OutputFormats(f) > 1
        THEN [exit |-> FALSE, err |-> ErrManyFormats, flags |-> ZeroFlags]
        ELSE [exit |-> FALSE, err |-> NoErr,
              flags |-> [f EXCEPT !.plain = f.plain \/ f.fzf]]

\* parseFlags: exit is the os.Exit(0) of --version.
parseFlags(a) ==
    LET f == a.flags
    IN  IF f.setkeyring
        THEN [exit |-> FALSE, err |-> NoErr, flags |-> f]
        ELSE IF f.version
        THEN [exit |-> TRUE, err |-> NoErr, flags |-> f]
        ELSE IF f.input = ""
        THEN [exit |-> FALSE, err |-> ErrNoInput, flags |-> ZeroFlags]
        ELSE IF OutputFormats(f) > 1
        THEN [exit |-> FALSE, err |-> ErrManyFormats, flags |-> ZeroFlags]
        ELSE IF a.nargs > 1
        THEN [exit |-> FALSE, err |-> ErrManyArgs, flags |-> ZeroFlags]
        ELSE [exit |-> FALSE, err |-> NoErr,
              flags |-> [f EXCEPT !.plain = f.plain \/ f.fzf]]

MainInit ==
    /\ argv \in CommandLines
    /\ flags = ZeroFlags
    /\ mpc = "ParseFlags"
    /\ trace = <<>>
    /\ merr = NoErr
    /\ mexit = -1

InitMain ==
    DecryptIdle /\ FilterIdle /\ PasswordIdle /\ OutputIdle /\ InputIdle /\ MainInit

\* die(err): rlog.Critical(err); os.Exit(1), after the calls of done.
Die(done, err) ==
    /\ trace' = trace \o done \o <<"rlog.Critical">>
    /\ merr' = err
    /\ mpc' = "Exit"
    /\ mexit' = 1

\* The process ends with the given status, after the calls of done.
Exit(done, status) ==
    /\ trace' = trace \o done
    /\ mpc' = "Exit"
    /\ mexit' = status
    /\ UNCHANGED merr

\* main goes on at the given position, after the calls of done.
GoOn(done, to) ==
    /\ trace' = trace \o done
    /\ mpc' = to
    /\ UNCHANGED <<merr, mexit>>

\* flags, err := parseFlags(); if err != nil { die(err) };
\* the test of flags.setkeyring
ParseFlags ==
    /\ mpc = "ParseFlags"
    /\ LET r == parseFlags(argv)
       IN  IF r.exit
           THEN /\ Exit(<<"parseFlags", "Printf: Build Version">>, 0)
                /\ UNCHANGED flags
           ELSE IF r.err # NoErr
           THEN /\ Die(<<"parseFlags">>, r.err)
                /\ flags' = r.flags
           ELSE /\ flags' = r.flags
                /\ GoOn(<<"parseFlags">>,
                        IF r.flags.setkeyring THEN "SetKeyring" ELSE "InputFile")
    /\ UNCHANGED argv
    /\ UNCHANGED <<decryptVars, filterVars, passwordVars, outputVars, inputVars>>

\* fmt.Println("Please enter the password ..."); setkeyring(): readPassword()
SetKeyringRead ==
    /\ mpc = "SetKeyring"
    /\ \E ok \in BOOLEAN :
          IF ok
          THEN GoOn(<<"Println: Please enter the password", "readPassword">>,
                    "KeyringSet")
          ELSE Die(<<"Println: Please enter the password", "readPassword">>,
                   "readPassword: error")
    /\ UNCHANGED <<argv, flags>>
    /\ UNCHANGED <<decryptVars, filterVars, passwordVars, outputVars, inputVars>>

\* setkeyring(): keyring.Set(...); fmt.Println("Password set. ..."); os.Exit(0)
SetKeyringStore ==
    /\ mpc = "KeyringSet"
    /\ \E ok \in BOOLEAN :
          IF ok
          THEN Exit(<<"keyring.Set", "Println: Password set">>, 0)
          ELSE Die(<<"keyring.Set">>, "keyring.Set: error")
    /\ UNCHANGED <<argv, flags>>
    /\ UNCHANGED <<decryptVars, filterVars, passwordVars, outputVars, inputVars>>

\* input, err := inputFile(flags.input); if err != nil { die(err) }
ResolveInput ==
    /\ mpc = "InputFile"
    /\ \E ok \in BOOLEAN :
          IF ok THEN GoOn(<<"inputFile">>, "Regexp")
          ELSE Die(<<"inputFile">>, "no input files match")
    /\ UNCHANGED <<argv, flags>>
    /\ UNCHANGED <<decryptVars, filterVars, passwordVars, outputVars, inputVars>>

\* rematch, err := regexp.Compile(r); if err != nil { die(err) }
\* "." always compiles.
CompileRegexp ==
    /\ mpc = "Regexp"
    /\ \E ok \in (IF argv.nargs > 0 THEN BOOLEAN ELSE {TRUE}) :
          IF ok THEN GoOn(<<"regexp.Compile">>, "Password")
          ELSE Die(<<"regexp.Compile">>, "error parsing regexp")
    /\ UNCHANGED <<argv, flags>>
    /\ UNCHANGED <<decryptVars, filterVars, passwordVars, outputVars, inputVars>>

\* keyring.Get(...) with --use-keyring, readPassword() without;
\* if err != nil { die(err) }
GetPassword ==
    /\ mpc = "Password"
    /\ LET call == IF flags.usekeyring THEN "keyring.Get" ELSE "readPassword"
       IN  \E ok \in BOOLEAN :
              IF ok THEN GoOn(<<call>>, "Decrypt")
              ELSE Die(<<call>>, "password: error")
    /\ UNCHANGED <<argv, flags>>
    /\ UNCHANGED <<decryptVars, filterVars, passwordVars, outputVars, inputVars>>

\* db, err := aegisDecrypt(input, password); if err != nil { die(err) }
MainDecrypt ==
    /\ mpc = "Decrypt"
    /\ \E ok \in BOOLEAN :
          IF ok THEN GoOn(<<"aegisDecrypt">>, "Filter")
          ELSE Die(<<"aegisDecrypt">>, "aegisDecrypt: error")
    /\ UNCHANGED <<argv, flags>>
    /\ UNCHANGED <<decryptVars, filterVars, passwordVars, outputVars, inputVars>>

\* vault, err := filterAegisVault(db, rematch); the empty vault; sort.Slice
FilterAndSort ==
    /\ mpc = "Filter"
    /\ \E outcome \in {"error", "empty", "entries"} :
          CASE outcome = "error" ->
                 Die(<<"filterAegisVault">>, "filterAegisVault: error")
            [] outcome = "empty" ->
                 Exit(<<"filterAegisVault", "rlog.Info: No matching entries found.">>, 1)
            [] outcome = "entries" ->
                 GoOn(<<"filterAegisVault", "sort.Slice">>, "Output")
    /\ UNCHANGED <<argv, flags>>
    /\ UNCHANGED <<decryptVars, filterVars, passwordVars, outputVars, inputVars>>

\* The calls of the case of the output switch that is taken.
OutputCalls(f) ==
    IF f.fuzzy THEN <<"fuzzyFind">>
    ELSE IF f.fzf THEN <<"outputTable", "fzf">>
    ELSE IF f.json THEN <<"outputJSON">>
    ELSE <<"outputTable">>

\* switch { case flags.fuzzy: ... case flags.fzf: ... case flags.json: ...
\* default: ... }, and the end of main.  outputTable has no error.
PrintOutput ==
    /\ mpc = "Output"
    /\ \E ok \in (IF flags.fuzzy \/ flags.fzf \/ flags.json
                  THEN BOOLEAN ELSE {TRUE}) :
          IF ok THEN Exit(OutputCalls(flags) \o <<"Println: output">>, 0)
          ELSE Die(OutputCalls(flags), "output: error")
    /\ UNCHANGED <<argv, flags>>
    /\ UNCHANGED <<decryptVars, filterVars, passwordVars, outputVars, inputVars>>

NextMain ==
    \/ ParseFlags
    \/ SetKeyringRead
    \/ SetKeyringStore
    \/ ResolveInput
    \/ CompileRegexp
    \/ GetPassword
    \/ MainDecrypt
    \/ FilterAndSort
    \/ PrintOutput

SpecMain == InitMain /\ [][NextMain]_vars

----------------------------------------------------------------------------
(* C20 *)

\* main has made the call or printed the line named.
Traced(what) == \E k \in 1..Len(trace) : trace[k] = what

\* What main does with --set-keyring.
KeyringSteps ==
    { "parseFlags", "Println: Please enter the password", "readPassword",
      "keyring.Set", "Println: Password set", "rlog.Critical" }

\* C20: with --set-keyring, whatever the other flags and arguments are,
\* parseFlags returns no error and does not print the version, and main
\* only prompts, reads a password and stores it in the keyring: it ends
\* with status 0 once the password is stored, or dies of the error of the
\* read or of the keyring, and never resolves the input, compiles a
\* regular expression, decrypts, filters or prints entries.
C20_SetKeyringIgnoresTheRest ==
    argv.flags.setkeyring
    => /\ \A k \in 1..Len(trace) : trace[k] \in KeyringSteps
       /\ merr \in {NoErr, "readPassword: error", "keyring.Set: error"}
       /\ mpc = "Exit"
          => \/ /\ mexit = 0 /\ merr = NoErr
                /\ Traced("readPassword") /\ Traced("keyring.Set")
                /\ Traced("Println: Password set")
             \/ /\ mexit = 1 /\ merr # NoErr
                /\ ~Traced("Println: Password set")

\* --set-keyring with --version, without --input, with two output formats
\* and two arguments: the password is stored and the process ends with 0.
C20_Witness ==
    /\ argv.flags.setkeyring /\ argv.flags.version /\ argv.flags.input = ""
    /\ argv.flags.fuzzy /\ argv.flags.json /\ argv.nargs = 2
    /\ mpc = "Exit" /\ mexit = 0
    /\ Traced("keyring.Set")

----------------------------------------------------------------------------
(***************************************************************************)
(* The output of main (main.go, fuzzy.go): the sort of the vault, then     *)
(* outputTable, fzf, outputJSON or fuzzyFind.  Of a table, the order of    *)
(* the rows is modelled for every style and the text of the lines for the  *)
(* plain style without header, which is what fzf reads.                    *)
(***************************************************************************)

\* Largest number of entries of a vault that is printed.
MaxVault == 3

\* What filterAegisVault returns for the entries of EntryChoices at time 59.
OtpEntries ==
    { MkOtpEntry(UnmarshalEntry(j), EntryToken(UnmarshalEntry(j), 59).token) :
        j \in EntryChoices \ {EntryBadSecret} }

Vaults == UNION { [1..n -> OtpEntries] : n \in 0..MaxVault }

\* The output formats: the default table, --plain, --fzf, --json, --fuzzy.
Modes == {"table", "plain", "fzf", "json", "fuzzy"}

\* The orders of the sorts: "desc" and "asc" by issuer + "/" + account,
\* "rows" by Issuer, then by Name, both ascending.
Before(order, a, b) ==
    CASE order = "desc" -> StringLess(compositeKey(b), compositeKey(a))
      [] order = "asc" -> StringLess(compositeKey(a), compositeKey(b))
      [] order = "rows" ->
            \/ StringLess(a.Issuer, b.Issuer)
            \/ a.Issuer = b.Issuer /\ StringLess(a.Account, b.Account)

RECURSIVE SinkDownBy(_, _, _)
SinkDownBy(order, data, j) ==
    IF j > 1 /\ Before(order, data[j], data[j - 1])
    THEN SinkDownBy(order, Swap(data, j, j - 1), j - 1)
    ELSE data

RECURSIVE insertionSortBy(_, _, _)
insertionSortBy(order, data, k) ==
    IF k > Len(data) THEN data
    ELSE insertionSortBy(order, SinkDownBy(order, data, k), k + 1)

\* sort.Sort on up to 12 elements is an insertion sort.
sortBy(order, data) == insertionSortBy(order, data, 2)

\* The rows are sorted in every format.
tableOrder_AlwaysSorted(v, m) == sortBy("rows", v)

\* tbl.SortBy({Name: "Issuer"}, {Name: "Name"}): the columns are found by
\* the names of the header, and the table of --fzf has no header, so that
\* its rows stay in the order they were appended in.
tableOrder(v, m) == IF m = "fzf" THEN v ELSE sortBy("rows", v)

Blanks(n) == [k \in 1..n |-> " "]

\* The width of a column: that of its longest text.
ColumnWidth(v, col) ==
    LET widths == { Len(v[k][col]) : k \in 1..Len(v) }
    IN  CHOOSE w \in widths : \A x \in widths : x <= w

\* A cell of the plain style: PaddingLeft, the text filled up to the width
\* of the column, PaddingRight.
Cell(v, k, col) ==
    <<" ">> \o v[k][col] \o Blanks(ColumnWidth(v, col) - Len(v[k][col])) \o <<" ">>

\* A row of the plain style: the three cells, nothing between them.
RowLine(v, k) == Cell(v, k, "Issuer") \o Cell(v, k, "Account") \o Cell(v, k, "Token")

\* outputTable(vault, flags): the rows in their order, and the lines of the
\* table of --fzf: the rows between the two empty lines of the border.
outputTable(v, m) ==
    IF Len(v) = 0 THEN [rows |-> <<>>, lines |-> <<>>]
    ELSE LET rows == tableOrder(v, m)
         IN  [rows |-> rows,
              lines |-> IF m = "fzf"
                        THEN << <<>> >> \o [k \in 1..Len(rows) |-> RowLine(rows, k)]
                             \o << <<>> >>
                        ELSE <<>>]

IsSpace(c) == c \in {" ", "\n"}

\* strings.TrimSpace(s) == ""
IsBlank(s) == \A k \in 1..Len(s) : IsSpace(s[k])

\* fzf(): the lines written to the standard input of fzf.
RECURSIVE NonBlank(_)
NonBlank(lines) ==
    IF lines = <<>> THEN <<>>
    ELSE (IF IsBlank(Head(lines)) THEN <<>> ELSE <<Head(lines)>>)
         \o NonBlank(Tail(lines))

\* fzf(): f := strings.Fields(strings.TrimSpace(output)); f[len(f)-1], and
\* "" when there is no field.
lastField(s) ==
    LET ink == { k \in 1..Len(s) : ~IsSpace(s[k]) }
    IN  IF ink = {} THEN <<>>
        ELSE LET last == CHOOSE k \in ink : \A x \in ink : x <= k
                 before == { k \in 1..last : IsSpace(s[k]) }
                 from == IF before = {} THEN 1
                         ELSE (CHOOSE k \in before : \A x \in before : x <= k) + 1
             IN  SubSeq(s, from, last)

OutputInit ==
    /\ mode \in Modes
    /\ vault \in Vaults
    /\ unsorted = vault
    /\ shown = <<>>
    /\ pick = 0
    /\ printed = <<>>
    /\ fpc = "Filtered"
    /\ plainJSON = [kind |-> "garbage", entries |-> <<>>]
    /\ args = <<>>
    /\ now = 59
    /\ rematch = <<>>
    /\ vaultJSON = [Entries |-> <<>>]
    /\ entryIdx = 1
    /\ tokens = <<>>
    /\ ferr = NoErr
    /\ fexit = -1

InitOutput ==
    DecryptIdle /\ PasswordIdle /\ MainIdle /\ InputIdle /\ OutputInit

\* The end of main after an output, and die(err).
OutputEnds(err) ==
    /\ fpc' = "Exit"
    /\ ferr' = err
    /\ fexit' = IF err = NoErr THEN 0 ELSE 1
    /\ UNCHANGED <<plainJSON, args, now, rematch, vaultJSON, entryIdx, tokens,
                   vault>>
    /\ UNCHANGED <<decryptVars, passwordVars, mainVars, inputVars>>

\* case flags.fuzzy: token, err := fuzzyFind(vault); fmt.Println(token).
\* The finder lists vault[0], vault[1], ...; the user selects an item or
\* leaves the finder, which is an error.
OutputFuzzy ==
    /\ fpc = "Sorted"
    /\ mode = "fuzzy"
    /\ shown' = vault
    /\ \E idx \in 0..Len(vault) :
          /\ pick' = idx
          /\ IF idx = 0
             THEN /\ printed' = <<>>
                  /\ OutputEnds("fuzzyfinder: abort")
             ELSE /\ printed' = vault[idx].Token
                  /\ OutputEnds(NoErr)
    /\ UNCHANGED <<mode, unsorted>>

\* case flags.fzf: t, err := fzf(outputTable(vault, flags)); fmt.Println(t).
\* fzf returns the line the user selects, or fails.
OutputFzf ==
    /\ fpc = "Sorted"
    /\ mode = "fzf"
    /\ LET t == outputTable(vault, mode)
           sent == NonBlank(t.lines)
       IN  /\ shown' = t.rows
           /\ \E idx \in 0..Len(sent) :
                 /\ pick' = idx
                 /\ IF idx = 0
                    THEN /\ printed' = <<>>
                         /\ OutputEnds("exit status 130")
                    ELSE /\ printed' = lastField(sent[idx])
                         /\ OutputEnds(NoErr)
    /\ UNCHANGED <<mode, unsorted>>

\* case flags.json: output, err := outputJSON(vault); fmt.Println(output).
\* json.Marshal writes the entries in the order of the slice.
OutputJSON ==
    /\ fpc = "Sorted"
    /\ mode = "json"
    /\ shown' = vault
    /\ OutputEnds(NoErr)
    /\ UNCHANGED <<mode, unsorted, pick, printed>>

\* default: fmt.Println(outputTable(vault, flags))
OutputTable ==
    /\ fpc = "Sorted"
    /\ mode \in {"table", "plain"}
    /\ shown' = outputTable(vault, mode).rows
    /\ OutputEnds(NoErr)
    /\ UNCHANGED <<mode, unsorted, pick, printed>>

NextOutput ==
    \/ NoMatch
    \/ SortVault
    \/ OutputFuzzy
    \/ OutputFzf
    \/ OutputJSON
    \/ OutputTable

SpecOutput == InitOutput /\ [][NextOutput]_vars

----------------------------------------------------------------------------
(* C21 *)

\* C21: in --fzf mode the string fzf() returns for the line the user
\* selected is the whole Token of the entry the line was rendered from.
C21_FzfReturnsToken ==
    (fpc = "Exit" /\ mode = "fzf" /\ pick > 0)
    => printed = shown[pick].Token

----------------------------------------------------------------------------
(* C24 *)

\* main has presented the vault.
Presented == fpc = "Exit" /\ fexit = 0

\* The presentation of the vault v: the rows of the table in the order of
\* Issuer, then Name, and v itself in the other formats.
PresentationOf(v) ==
    IF mode \in {"table", "plain"} THEN sortBy("rows", v) ELSE v

----------------------------------------------------------------------------
(* inputFile (main.go): the newest of the files a glob expands to *)

\* The most files a glob expands to.
MaxFiles == 3

\* var ntime time.Time: the zero time, January 1 of year 1, 00:00:00 UTC.
\* Modification times are counted from it.
ZeroTime == 0

\* The modification times of the files: the zero time and two later ones.
ModTimes == {ZeroTime, ZeroTime + 1, ZeroTime + 2}

\* What os.Stat finds for a path: a failure, or the modification time.
FileInfos == [stat : {TRUE}, mtime : ModTimes]
                 \cup {[stat |-> FALSE, mtime |-> ZeroTime]}

\* What filepath.Glob returns: ErrBadPattern, or the matching paths.  The
\* k-th path matched is called k; the empty path "" is called 0.
Globs ==
    {[err |-> TRUE, files |-> <<>>]}
        \cup {[err |-> FALSE, files |-> fs] :
                 fs \in UNION {[1..n -> FileInfos] : n \in 0..MaxFiles}}

EmptyPath == 0

\* t.After(u)
After(t, u) == t > u

InputInit ==
    /\ matches \in Globs
    /\ ipc = "Glob"
    /\ fileIdx = 1
    /\ ntime = ZeroTime
    /\ nfile = EmptyPath
    /\ iret = [path |-> EmptyPath, err |-> NoErr]

InitInput ==
    DecryptIdle /\ FilterIdle /\ PasswordIdle /\ MainIdle /\ OutputIdle
        /\ InputInit

InputReturns(path, err) ==
    /\ iret' = [path |-> path, err |-> err]
    /\ ipc' = "Done"

\* files, err := filepath.Glob(fileglob), and the two tests on its result.
Glob ==
    /\ ipc = "Glob"
    /\ IF matches.err
       THEN InputReturns(EmptyPath, "syntax error in pattern")
       ELSE IF matches.files = <<>>
            THEN InputReturns(EmptyPath, "no input files match")
            ELSE ipc' = "Loop" /\ UNCHANGED iret
    /\ UNCHANGED <<matches, fileIdx, ntime, nfile>>
    /\ UNCHANGED <<decryptVars, filterVars, passwordVars, mainVars,
                   outputVars>>

\* One turn of the loop over files.
StatStep ==
    /\ ipc = "Loop"
    /\ fileIdx <= Len(matches.files)
    /\ LET fi == matches.files[fileIdx]
       IN  IF ~fi.stat
           THEN /\ InputReturns(EmptyPath, "stat: error")
                /\ UNCHANGED <<fileIdx, ntime, nfile>>
           ELSE /\ IF After(fi.mtime, ntime)
                   THEN ntime' = fi.mtime /\ nfile' = fileIdx
                   ELSE UNCHANGED <<ntime, nfile>>
                /\ fileIdx' = fileIdx + 1
                /\ UNCHANGED <<ipc, iret>>
    /\ UNCHANGED matches
    /\ UNCHANGED <<decryptVars, filterVars, passwordVars, mainVars,
                   outputVars>>

\* return nfile, nil
InputReturn ==
    /\ ipc = "Loop"
    /\ fileIdx > Len(matches.files)
    /\ InputReturns(nfile, NoErr)
    /\ UNCHANGED <<matches, fileIdx, ntime, nfile>>
    /\ UNCHANGED <<decryptVars, filterVars, passwordVars, mainVars,
                   outputVars>>

NextInput ==
    \/ Glob
    \/ StatStep
    \/ InputReturn

SpecInput == InitInput /\ [][NextInput]_vars

----------------------------------------------------------------------------
(* C22 *)

\* The glob expands to at least one file and every file can be stat'ed.
AllStatable ==
    /\ ~matches.err
    /\ matches.files # <<>>
    /\ \A k \in 1..Len(matches.files) : matches.files[k].stat

\* C22: when inputFile has returned: if the glob expands to at least one
\* file and all of them can be stat'ed, the path returned is one of the
\* files and no file is strictly newer; otherwise an error is returned and
\* no path; and never the empty path with a nil error.
C22_NewestOrError ==
    ipc = "Done"
    => /\ IF AllStatable
          THEN /\ iret.err = NoErr
               /\ iret.path \in 1..Len(matches.files)
               /\ \A k \in 1..Len(matches.files) :
                      ~After(matches.files[k].mtime,
                             matches.files[iret.path].mtime)
          ELSE /\ iret.err # NoErr
               /\ iret.path = EmptyPath
       /\ ~(iret.path = EmptyPath /\ iret.err = NoErr)

----------------------------------------------------------------------------
(* C23 *)

\* The calls that write to the log.
LogCalls == {"rlog.Debug", "rlog.Debugf", "rlog.Critical"}

\* The calls that are handed a key, by the name of the argument.
KeyArguments == {"password", "key", "masterkey"}

\* The byte string b has the bytes of k in it.
Contains(b, k) ==
    /\ Len(k) > 0
    /\ \E off \in 0..(Len(b) - Len(k)) : SubSeq(b, off + 1, off + Len(k)) = k

\* The master keys a slot of the file wraps for the password, whether or
\* not the loop got to keep them.
WrappedKeys ==
    {v.pt : v \in {w \in GCMVectors : "pw" \in DOMAIN w.key.mat}}

\* C23: no key is written out.  Every call of aegisDecrypt and main that
\* writes to the log writes an error message (the error of the slot that
\* did not open, the error aegisDecrypt returned) or the decrypted
\* database, which has neither the bytes of the master key nor of a key a
\* slot wraps in it; and the scrypt key and the master key are handed to
\* scrypt.Key and newAES only.
C23_NoKeyWritten ==
    \A c \in 1..Len(calls) :
        /\ calls[c].fn = "rlog.Debug"
              => calls[c].arg = "cipher: message authentication failed"
        /\ calls[c].fn = "rlog.Critical"
              => calls[c].arg = ret.err /\ ret.err # NoErr
        /\ "bytes" \in DOMAIN calls[c]
              => /\ calls[c].fn = "rlog.Debugf"
                 /\ calls[c].bytes = ret.db
                 /\ ~Contains(calls[c].bytes, masterkey)
                 /\ \A k \in WrappedKeys : ~Contains(calls[c].bytes, k)
        /\ calls[c].fn = "rlog.Debugf" => "bytes" \in DOMAIN calls[c]
        /\ calls[c].fn \in LogCalls => calls[c].arg \notin KeyArguments
        /\ calls[c].arg \in KeyArguments
              => calls[c].fn \in {"scrypt.Key", "newAES"}

\* A slot failed to open and was logged, a later slot gave the master key,
\* and the decrypted database was logged.
C23_Witness ==
    /\ pc = "Filter"
    /\ Len(masterkey) > 0
    /\ Len(ret.db) > 0
    /\ Called("rlog.Debug")
    /\ Called("rlog.Debugf")

----------------------------------------------------------------------------
(* C25 *)

\* The ways main asks for a password: the prompt of --set-keyring, the read
\* of the terminal or of stdin, the lookup in the keyring.
PasswordRequests ==
    {"Println: Please enter the password", "readPassword", "keyring.Get"}

\* The command line passes the validation of parseFlags.
FlagsValid(a) ==
    /\ a.flags.input # ""
    /\ OutputFormats(a.flags) <= 1
    /\ a.nargs <= 1

\* The call named is in the trace before position k and main went on
\* after it.
SucceededBefore(what, k) ==
    \E j \in 1..(k - 1) : trace[j] = what /\ trace[j + 1] # "rlog.Critical"

\* The password is asked for only after the validation, the glob and the
\* regular expression; aegisDecrypt comes right after a password that was
\* obtained.
AsksInOrder ==
    /\ \A k \in 1..Len(trace) :
          trace[k] \in PasswordRequests
          => /\ FlagsValid(argv)
             /\ SucceededBefore("parseFlags", k)
             /\ SucceededBefore("inputFile", k)
             /\ SucceededBefore("regexp.Compile", k)
    /\ \A k \in 1..Len(trace) :
          trace[k] = "aegisDecrypt"
          => k > 1 /\ trace[k - 1] \in {"readPassword", "keyring.Get"}

\* The errors of the validation, of the glob and of the regular expression.
EarlyErrors ==
    {ErrNoInput, ErrManyFormats, ErrManyArgs, "no input files match",
     "error parsing regexp"}

\* An early failure ends the program with status 1 and no password asked.
EarlyFailureEnds ==
    merr \in EarlyErrors
    => /\ mpc = "Exit" /\ mexit = 1
       /\ \A k \in 1..Len(trace) : trace[k] \notin PasswordRequests

\* C25 as stated: on every run the password is asked for only after the
\* flags were validated, the glob resolved and the regular expression
\* compiled.
C25_Original == AsksInOrder /\ EarlyFailureEnds

\* C25, amended: without --set-keyring the password is asked for only
\* after the flags were validated, the glob resolved and the regular
\* expression compiled, aegisDecrypt is called only right after a
\* password was obtained, and a failure of the validation, the glob or
\* the regular expression ends the program with status 1 with no password
\* asked for.  With --set-keyring the password is asked for right after
\* parseFlags, which validates nothing, with no glob resolved and no
\* regular expression compiled.
C25_OrderExceptSetKeyring ==
    IF argv.flags.setkeyring
    THEN /\ merr \notin EarlyErrors
         /\ ~Traced("inputFile") /\ ~Traced("regexp.Compile")
         /\ ~Traced("aegisDecrypt")
         /\ Len(trace) >= 2 => trace[2] = "Println: Please enter the password"
         /\ Len(trace) >= 3 => trace[3] = "readPassword"
    ELSE AsksInOrder /\ EarlyFailureEnds

\* A run without --set-keyring that got its password from the keyring and
\* decrypted, and a run of --set-keyring with no --input that read a
\* password: the two cases of the amended statement.
C25_Witness ==
    \/ /\ ~argv.flags.setkeyring
       /\ Traced("keyring.Get") /\ Traced("aegisDecrypt")
       /\ mpc = "Exit" /\ mexit = 0
    \/ /\ argv.flags.setkeyring /\ ~FlagsValid(argv)
       /\ Traced("readPassword")

----------------------------------------------------------------------------
(* C26 *)

\* The loop of filterAegisVault has started.
InLoop == fpc \in {"Entries", "Panic", "Filtered", "Sorted"}

\* The entry at index k is a "totp" entry whose secret is not base32.
MalformedSecret(k) ==
    /\ Entries[k].Type = TotpKind
    /\ ~Base32DecodeString(Entries[k].Info.Secret).ok

\* C26: the loop makes the token of every entry it goes through, whether
\* the pattern keeps the entry or not, so which tokens are made does not
\* depend on the pattern; it stops with a panic at the first "totp" entry
\* with a malformed secret, kept or not; and filterAegisVault returns
\* entries only if no "totp" entry of the database, kept or not, has a
\* malformed secret.
C26_TokenBeforeMatch ==
    /\ InLoop
          => /\ Len(tokens) = entryIdx - 1
             /\ \A k \in 1..Len(tokens) :
                    ~MalformedSecret(k) /\ tokens[k] = OwnToken(k)
    /\ fpc = "Panic"
          => /\ entryIdx <= Len(Entries)
             /\ MalformedSecret(entryIdx)
    /\ fpc \in {"Filtered", "Sorted"}
          => \A k \in 1..Len(Entries) : ~MalformedSecret(k)
    /\ (fpc = "Exit" /\ \E k \in 1..Len(Entries) : MalformedSecret(k))
          => fexit = 2

\* The pattern kept an entry, and the token of a later entry that the
\* pattern rejects panics: the entry kept is not returned.
C26_Witness ==
    /\ fpc = "Panic"
    /\ Len(vault) > 0
    /\ ~Keeps(rematch, Entries[entryIdx])

====
